---- MODULE Spec2Model ----
(***************************************************************************)
(* The multishard mutation query of multishard_mutation_query.cc: one      *)
(* read_context per page, a reader state machine per shard, lookup of      *)
(* saved readers, the page read through the multishard combining reader,   *)
(* dismantling of the unconsumed fragments, saving of the shard readers    *)
(* into the per-shard querier caches and the final stop().                 *)
(*                                                                         *)
(* The querier cache, the reader concurrency semaphore, the multishard     *)
(* combining reader and consume_page are collaborators whose code is not   *)
(* part of the translation unit; they are modelled by what the calls made  *)
(* on them require.                                                        *)
(***************************************************************************)
EXTENDS Naturals, Sequences, FiniteSets, TLC

\* ---------------------------------------------------------------- bounds
NShards == 2
NParts == 3
RowsPer == 2
MaxBuf == 2
MaxPages == 2
MaxRanges == 3
MaxRangeLen == 2
MaxRemote == 3
NQueries == 2
MaxCalls == 4
MaxCombined == 12
NSaveParts == 4
MaxBroadcasts == 5
MaxLoad == 2

Shards == 0 .. (NShards - 1)

\* ------------------------------------------------------------- optionals
\* std::optional / a possibly-null pointer: the empty or the one-element tuple.
None == <<>>
Some(x) == <<x>>
Has(o) == o # <<>>
Val(o) == o[1]

\* ------------------------------------------------------------- fragments
\* A mutation fragment: kind, partition (the token of its key) and, for a
\* clustering row or a range tombstone change, its clustering position.
Frag(k, p, c) == [k |-> k, p |-> p, c |-> c]
is_partition_start(mf) == mf.k = "ps"

\* schema.get_sharder().shard_of(token): the sharder gives each shard contiguous
\* chunks of the token ring, here of two tokens.
shard_of(p) == (p \div 2) % NShards

HasStatic(p) == p % 2 = 1
HasTomb(p) == p <= 2

RECURSIVE Rows(_, _)
Rows(p, c) == IF c > RowsPer THEN <<>> ELSE <<Frag("row", p, c)>> \o Rows(p, c + 1)

\* The fragments of partition p, in stream order.
PartStream(p) ==
    <<Frag("ps", p, 0)>>
    \o (IF HasStatic(p) THEN <<Frag("sr", p, 0)>> ELSE <<>>)
    \o <<Frag("row", p, 1)>>
    \o (IF HasTomb(p) THEN <<Frag("rtc", p, 1)>> ELSE <<>>)
    \o Rows(p, 2)
    \o <<Frag("pe", p, 0)>>

RECURSIVE StreamFrom(_, _)
StreamFrom(s, p) ==
    IF p > NParts THEN <<>>
    ELSE (IF shard_of(p) = s THEN PartStream(p) ELSE <<>>) \o StreamFrom(s, p + 1)

\* What the mutation source of shard s holds: its partitions in token order.
ShardStream(s) == StreamFrom(s, 1)

\* Position of a fragment in the ordering (token, region, clustering position).
Rank(mf) ==
    CASE mf.k = "ps" -> 0
      [] mf.k = "sr" -> 1
      [] mf.k = "row" -> 2 * mf.c
      [] mf.k = "rtc" -> 2 * mf.c + 1
      [] mf.k = "pe" -> 2 * RowsPer + 2

Before(a, b) == a.p < b.p \/ (a.p = b.p /\ Rank(a) < Rank(b))

IndexOf(seq, x) == CHOOSE i \in 1 .. Len(seq) : seq[i] = x

RECURSIVE SeqSum(_)
SeqSum(seq) == IF seq = <<>> THEN 0 ELSE Head(seq) + SeqSum(Tail(seq))

SelectFrags(seq, Test(_)) == SelectSeq(seq, Test)

\* mutation_fragment_v2::memory_usage()
memory_usage(mf) == IF mf.k = "row" THEN 2 ELSE 1

\* ---------------------------------------------------------------- state
VARIABLES
    cmd,            \* query::read_command of the page: query_uuid, is_first_page, limits
    pc,             \* where do_query_on_all_shards / do_query stands
    pageno,         \* pages of the query already returned
    _readers,       \* read_context::_readers, one reader_meta per shard
    looked,         \* shards whose lookup_readers closure has run
    f,              \* the future of the lookup/read/save chain in do_query
    shard_readers,  \* the combining reader's shard readers
    created,        \* shards the combining reader has a shard reader for
    tok,            \* token the combining reader reads at
    combined,       \* buffer of the combining reader
    cstate,         \* compaction state of the page
    page,           \* fragments consumed into the result of this page
    endkind,        \* how consume_page ended
    closed,         \* shards whose shard reader has been closed
    dismantled,     \* progress of save_readers: nothing, combined buffer, compaction state
    saving_rm,      \* the reader_meta save_reader holds for each shard
    saved,          \* shards whose save_reader closure has finished, with its outcome
    stopped,        \* shards stop() has finished with
    stop_calls,     \* invocations of stop() in this do_query
    querier_cache,  \* per shard: the querier saved under the query id
    stats,          \* database stats, counted from the start of the page
    ret,            \* what do_query_on_all_shards returned for the page
    delivered,      \* fragments delivered to result builders over all pages
    trace,          \* the dismantle statistics save_readers traced
    snap,           \* the permits in flight and cache contents when the page started
    mrr,            \* a multi_range_reader over an underlying reader and a range vector
    fwd,            \* a forward_service::dispatch: its dispatcher, requests and result
    pol,            \* read contexts whose lifecycle policy is called in any order
    dis,            \* a save_readers call: what it is handed and what it leaves
    lk,             \* a lookup_readers call over queriers of any semaphore, and the stop() after it
    lb              \* a load_broadcaster: its timer, its _done future and what it published

queryVars == <<cmd, pc, pageno, _readers, looked, f, shard_readers, created, tok, combined,
               cstate, page, endkind, closed, dismantled, saving_rm, saved, stopped,
               stop_calls, querier_cache, stats, ret, delivered, trace, snap>>

\* The units that are exercised on their own, apart from the page of a query.
unitVars == <<mrr, fwd, pol, dis, lk, lb>>

vars == <<queryVars, unitVars>>
\* ------------------------------------------------------- read_context types
\* reader_meta::remote_parts
remote_parts(permit, range, slice, read_operation, handle) ==
    [permit |-> permit, range |-> range, slice |-> slice,
     read_operation |-> read_operation, handle |-> handle, buffer |-> None]

\* reader_meta: default constructed, and the remote constructor
reader_meta(s, rp) == [state |-> s, rparts |-> rp, dismantled_buffer |-> None]
reader_meta_default == reader_meta("inexistent", None)

get_dismantled_buffer(rm) ==
    IF Has(rm.dismantled_buffer) THEN rm ELSE [rm EXCEPT !.dismantled_buffer = Some(<<>>)]

\* A flat mutation reader of one shard: its permit, its buffer and the index in
\* the shard's stream of the next fragment it will produce.
Reader(permit, buf, nxt) == [permit |-> permit, buf |-> buf, nxt |-> nxt]

\* reader_concurrency_semaphore::register_inactive_read: the handle owns the
\* parked reader until it is unregistered or evicted.
register_inactive_read(reader) == [reader |-> Some(reader)]
unregister_inactive_read(handle) == handle.reader
moved_from_handle == [reader |-> None]

\* dismantle_buffer_stats
dismantle_buffer_stats ==
    [partitions |-> 0, fragments |-> 0, bytes |-> 0,
     discarded_partitions |-> 0, discarded_fragments |-> 0, discarded_bytes |-> 0]

add(st, mf) ==
    [st EXCEPT !.partitions = @ + (IF is_partition_start(mf) THEN 1 ELSE 0),
               !.fragments = @ + 1,
               !.bytes = @ + memory_usage(mf)]

add_discarded(st, mf) ==
    [st EXCEPT !.discarded_partitions = @ + (IF is_partition_start(mf) THEN 1 ELSE 0),
               !.discarded_fragments = @ + 1,
               !.discarded_bytes = @ + memory_usage(mf)]

RECURSIVE add_all(_, _)
add_all(st, tmp) == IF tmp = <<>> THEN st ELSE add_all(add(st, Head(tmp)), Tail(tmp))

RECURSIVE add_discarded_all(_, _)
add_discarded_all(st, tmp) ==
    IF tmp = <<>> THEN st ELSE add_discarded_all(add_discarded(st, Head(tmp)), Tail(tmp))

\* The fragments of tmp put in front of buf as a block, in the order of tmp.
emplace_front_range(buf, tmp) == tmp \o buf

\* for (auto& smf : tmp_buffer) shard_buffer.emplace_front(std::move(smf));
RECURSIVE emplace_front_all(_, _)
emplace_front_all(buf, tmp) ==
    IF tmp = <<>> THEN buf ELSE emplace_front_all(<<Head(tmp)>> \o buf, Tail(tmp))

\* ------------------------------------------------------------- permits
PermitsOfReader(ro) == IF Has(ro) THEN {Val(ro).permit} ELSE {}

\* A shard reader of the combining reader holds its permit while its underlying
\* reader is alive.
PermitsOfShardReader(ro) == IF Has(ro) /\ Val(ro).live THEN {Val(ro).permit} ELSE {}

PermitsOfQuerier(qo) == IF Has(qo) THEN {Val(qo).permit, Val(qo).reader.permit} ELSE {}

PermitsOfMeta(rm) ==
    IF Has(rm.rparts)
    THEN {Val(rm.rparts).permit}
         \cup (IF Has(Val(rm.rparts).handle)
               THEN PermitsOfReader(Val(Val(rm.rparts).handle).reader) ELSE {})
    ELSE {}

\* The permits of shard s's semaphore that some reader, remote parts or querier
\* still holds.
InFlight(s) ==
    PermitsOfMeta(_readers[s])
    \cup (IF Has(saving_rm[s]) THEN PermitsOfMeta(Val(saving_rm[s])) ELSE {})
    \cup PermitsOfShardReader(shard_readers[s])
    \cup PermitsOfQuerier(querier_cache[s])

\* database::obtain_reader_permit: a permit no one holds yet.
NewPermit(s) ==
    CHOOSE n \in 1 .. (Cardinality(InFlight(s)) + 1) :
        n \notin InFlight(s) /\ \A m \in 1 .. (n - 1) : m \in InFlight(s)

\* An obtain_reader_permit that asks the database for a permit in any state.
obtain_reader_permit_fresh(rm, s) == NewPermit(s)

\* ------------------------------------------------- reader lifecycle policy
\* read_context::obtain_reader_permit for the reader_meta rm of shard s
obtain_reader_permit(rm, s) ==
    IF rm.state = "successful_lookup" THEN Val(rm.rparts).permit ELSE NewPermit(s)

\* A create_reader that logs the unexpected state and returns no reader.
create_reader_quiet(rm, permit, made) ==
    IF rm.state = "saving" THEN [thrown |-> FALSE, rm |-> rm, reader |-> None]
    ELSE [thrown |-> FALSE,
          rm |-> [rm EXCEPT !.state = "used",
                            !.rparts = Some(remote_parts(permit, 1, 1, TRUE, None))],
          reader |-> Some(Reader(permit, made.buf, made.nxt))]

\* A create_reader that makes a reader whatever state the shard is in.
create_reader_any_state(rm, permit, made) ==
    [thrown |-> FALSE,
     rm |-> [rm EXCEPT !.state = "used",
                       !.rparts = Some(remote_parts(permit, 1, 1, TRUE, None))],
     reader |-> Some(Reader(permit, made.buf, made.nxt))]

\* A create_reader that takes a saved reader that was evicted for an error.
create_reader_strict(rm, permit, made) ==
    IF rm.state \notin {"used", "successful_lookup", "inexistent"}
    THEN [thrown |-> TRUE, rm |-> rm, reader |-> None]
    ELSE IF rm.state = "successful_lookup"
    THEN LET reader_opt == unregister_inactive_read(Val(Val(rm.rparts).handle))
         IN [thrown |-> IF Has(reader_opt) THEN Val(reader_opt).permit # permit ELSE TRUE,
             rm |-> [rm EXCEPT !.state = "used",
                               !.rparts = Some([Val(rm.rparts) EXCEPT
                                                  !.handle = Some(moved_from_handle)])],
             reader |-> reader_opt]
    ELSE [thrown |-> FALSE,
          rm |-> [rm EXCEPT !.state = "used",
                            !.rparts = Some(remote_parts(permit, 1, 1, TRUE, None))],
          reader |-> Some(Reader(permit, made.buf, made.nxt))]

\* A create_reader that hands out the reader without marking the shard used.
create_reader_unmarked(rm, permit, made) ==
    IF rm.state = "successful_lookup"
       /\ Has(unregister_inactive_read(Val(Val(rm.rparts).handle)))
    THEN [thrown |-> FALSE,
          rm |-> [rm EXCEPT !.rparts = Some([Val(rm.rparts) EXCEPT
                                               !.handle = Some(moved_from_handle)])],
          reader |-> unregister_inactive_read(Val(Val(rm.rparts).handle))]
    ELSE [thrown |-> FALSE,
          rm |-> [rm EXCEPT !.rparts = Some(remote_parts(permit, 1, 1, TRUE, None))],
          reader |-> Some(Reader(permit, made.buf, made.nxt))]

\* read_context::create_reader on the shard of rm. made is the reader the
\* table's mutation source makes for the range. Gives the new reader_meta, the
\* reader returned and whether the call threw.
create_reader(rm, permit, made) ==
    IF rm.state \notin {"used", "successful_lookup", "inexistent"}
    THEN [thrown |-> TRUE, rm |-> rm, reader |-> None]
    ELSE IF rm.state = "successful_lookup"
            /\ Has(unregister_inactive_read(Val(Val(rm.rparts).handle)))
    THEN LET reader_opt == unregister_inactive_read(Val(Val(rm.rparts).handle))
         IN [thrown |-> Val(reader_opt).permit # permit,
             rm |-> [rm EXCEPT !.state = "used",
                               !.rparts = Some([Val(rm.rparts) EXCEPT
                                                  !.handle = Some(moved_from_handle)])],
             reader |-> reader_opt]
    ELSE [thrown |-> FALSE,
          rm |-> [rm EXCEPT !.state = "used",
                            !.rparts = Some(remote_parts(permit, 1, 1, TRUE, None))],
          reader |-> Some(Reader(permit, made.buf, made.nxt))]

\* A destroy_reader that moves the shard to saving from any state.
destroy_reader_any_state(rm, reader) == [rm EXCEPT !.state = "saving"]

\* A destroy_reader that keeps the handle but not the unconsumed fragments.
destroy_reader_drops_fragments(rm, reader) ==
    IF rm.state = "used"
    THEN [rm EXCEPT !.state = "saving",
                    !.rparts = Some([Val(rm.rparts) EXCEPT !.handle = Some(reader.handle)])]
    ELSE rm

\* A destroy_reader that puts the shard back to a default constructed entry.
destroy_reader_resets(rm, reader) == reader_meta_default

\* read_context::destroy_reader
destroy_reader(rm, reader) ==
    IF rm.state = "used"
    THEN [rm EXCEPT !.state = "saving",
                    !.rparts = Some([Val(rm.rparts) EXCEPT
                                       !.handle = Some(reader.handle),
                                       !.buffer = Some(reader.unconsumed_fragments)])]
    ELSE rm

\* ------------------------------------------------------------ dismantling
\* The loop of dismantle_combined_buffer, from the tail (index i) to the head.
RECURSIVE dismantle_loop(_, _, _, _, _)
dismantle_loop(rds, buffer, i, tmp_buffer, st) ==
    IF i = 0 THEN [readers |-> rds, tmp_buffer |-> tmp_buffer, stats |-> st]
    ELSE LET mf == buffer[i] IN
         IF is_partition_start(mf)
         THEN LET shard == shard_of(mf.p) IN
              IF rds[shard].state # "saving"
              THEN dismantle_loop(rds, buffer, i - 1, <<>>,
                                  add_discarded(add_discarded_all(st, tmp_buffer), mf))
              ELSE LET rm == get_dismantled_buffer(rds[shard])
                       shard_buffer == emplace_front_all(Val(rm.dismantled_buffer), tmp_buffer)
                   IN dismantle_loop(
                          [rds EXCEPT ![shard] =
                              [rm EXCEPT !.dismantled_buffer = Some(<<mf>> \o shard_buffer)]],
                          buffer, i - 1, <<>>, add(add_all(st, tmp_buffer), mf))
         ELSE dismantle_loop(rds, buffer, i - 1, Append(tmp_buffer, mf), st)

\* A remainder that is put behind what the buffer of the shard holds.
dismantle_remainder_back(rds, tmp_buffer, st, pkey) ==
    LET shard == shard_of(pkey)
        rm == get_dismantled_buffer(rds[shard])
    IN [readers |-> [rds EXCEPT ![shard] =
                        [rm EXCEPT !.dismantled_buffer =
                            Some(Val(rm.dismantled_buffer)
                                 \o emplace_front_all(<<>>, tmp_buffer))]],
        stats |-> add_all(st, tmp_buffer)]

\* What dismantle_combined_buffer does with the fragments left in tmp_buffer
\* after the loop: the remainder of the partition of pkey.
dismantle_remainder(rds, tmp_buffer, st, pkey) ==
    LET shard == shard_of(pkey)
        rm == get_dismantled_buffer(rds[shard])
    IN [readers |-> [rds EXCEPT ![shard] =
                        [rm EXCEPT !.dismantled_buffer =
                            Some(emplace_front_all(Val(rm.dismantled_buffer), tmp_buffer))]],
        stats |-> add_all(st, tmp_buffer)]

\* read_context::dismantle_combined_buffer
dismantle_combined_buffer(rds, combined_buffer, pkey) ==
    LET r == dismantle_loop(rds, combined_buffer, Len(combined_buffer), <<>>,
                            dismantle_buffer_stats)
    IN dismantle_remainder(r.readers, r.tmp_buffer, r.stats, pkey)

\* The fragments a detached_compaction_state stands for, in stream order.
CompactionFrags(cs) ==
    <<Frag("ps", cs.partition_start, 0)>>
    \o (IF cs.static_row THEN <<Frag("sr", cs.partition_start, 0)>> ELSE <<>>)
    \o (IF cs.current_tombstone THEN <<Frag("rtc", cs.partition_start, 1)>> ELSE <<>>)

\* A dismantle_compaction_state that puts the partition start to the front
\* first, then the static row, then the tombstone change.
dismantle_compaction_state_in_order(rds, cs) ==
    LET shard == shard_of(cs.partition_start)
        ps == Frag("ps", cs.partition_start, 0)
        sr == Frag("sr", cs.partition_start, 0)
        rtc == Frag("rtc", cs.partition_start, 1)
        n == 1 + (IF cs.static_row THEN 1 ELSE 0) + (IF cs.current_tombstone THEN 1 ELSE 0)
        st == [dismantle_buffer_stats EXCEPT !.partitions = 1, !.fragments = n, !.bytes = n]
    IN IF rds[shard].state # "saving"
       THEN [readers |-> rds,
             stats |-> [dismantle_buffer_stats EXCEPT !.discarded_partitions = 1,
                                                      !.discarded_fragments = n,
                                                      !.discarded_bytes = n]]
       ELSE LET rm == get_dismantled_buffer(rds[shard])
                b1 == <<ps>> \o Val(rm.dismantled_buffer)
                b2 == IF cs.static_row THEN <<sr>> \o b1 ELSE b1
                b3 == IF cs.current_tombstone THEN <<rtc>> \o b2 ELSE b2
            IN [readers |-> [rds EXCEPT ![shard] = [rm EXCEPT !.dismantled_buffer = Some(b3)]],
                stats |-> st]

\* read_context::dismantle_compaction_state
dismantle_compaction_state(rds, cs) ==
    LET shard == shard_of(cs.partition_start)
        ps == Frag("ps", cs.partition_start, 0)
        sr == Frag("sr", cs.partition_start, 0)
        rtc == Frag("rtc", cs.partition_start, 1)
        st0 == dismantle_buffer_stats
    IN IF rds[shard].state # "saving"
       THEN LET st1 == IF cs.current_tombstone THEN add_discarded(st0, rtc) ELSE st0
                st2 == IF cs.static_row THEN add_discarded(st1, sr) ELSE st1
            IN [readers |-> rds, stats |-> add_discarded(st2, ps)]
       ELSE LET rm == get_dismantled_buffer(rds[shard])
                b0 == Val(rm.dismantled_buffer)
                b1 == IF cs.current_tombstone THEN <<rtc>> \o b0 ELSE b0
                st1 == IF cs.current_tombstone THEN add(st0, rtc) ELSE st0
                b2 == IF cs.static_row THEN <<sr>> \o b1 ELSE b1
                st2 == IF cs.static_row THEN add(st1, sr) ELSE st1
            IN [readers |-> [rds EXCEPT ![shard] =
                                [rm EXCEPT !.dismantled_buffer = Some(<<ps>> \o b2)]],
                stats |-> add(st2, ps)]

\* ------------------------------------------------------------ save_reader
\* An unpop loop that walks the fragments from the first to the last.
RECURSIVE unpop_forward(_, _)
unpop_forward(buf, frags) ==
    IF frags = <<>> THEN buf
    ELSE unpop_forward(<<Head(frags)>> \o buf, Tail(frags))

\* for (rit = rbegin; rit != rend; ++rit) reader->unpop_mutation_fragment(*rit);
RECURSIVE unpop_reversed(_, _)
unpop_reversed(buf, frags) ==
    IF frags = <<>> THEN buf
    ELSE unpop_reversed(<<frags[Len(frags)]>> \o buf, SubSeq(frags, 1, Len(frags) - 1))

\* A save_reader that unpops the dismantled buffer before the shard reader's
\* unconsumed fragments.
save_reader_unpop_dismantled_first(reader, rparts, rm) ==
    LET b1 == IF Has(rm.dismantled_buffer)
              THEN unpop_reversed(reader.buf, Val(rm.dismantled_buffer)) ELSE reader.buf
    IN IF Has(rparts.buffer) THEN unpop_reversed(b1, Val(rparts.buffer)) ELSE b1

\* The buffer of the reader save_reader saves: the reader's own buffer with the
\* shard reader's unconsumed fragments and then the dismantled buffer unpopped.
save_reader_unpop(reader, rparts, rm) ==
    LET b1 == IF Has(rparts.buffer)
              THEN unpop_reversed(reader.buf, Val(rparts.buffer)) ELSE reader.buf
    IN IF Has(rm.dismantled_buffer) THEN unpop_reversed(b1, Val(rm.dismantled_buffer)) ELSE b1

save_reader_fragments(rparts, rm) ==
    (IF Has(rparts.buffer) THEN Len(Val(rparts.buffer)) ELSE 0)
    + (IF Has(rm.dismantled_buffer) THEN Len(Val(rm.dismantled_buffer)) ELSE 0)

\* query::shard_mutation_querier
shard_mutation_querier(range, slice, reader, permit, last_pkey, last_ckey) ==
    [range |-> range, slice |-> slice, reader |-> reader, permit |-> permit,
     last_pkey |-> last_pkey, last_ckey |-> last_ckey]

\* A save_reader that resets the state of the shard but leaves its remote
\* parts in _readers.
take_reader_meta_keeps_parts(rm) == [reader_meta_default EXCEPT !.rparts = rm.rparts]

\* A save_reader that leaves the shard marked as looked up.
take_reader_meta_lookup(rm) == reader_meta("successful_lookup", None)

\* A save_reader that leaves the reader_meta in _readers.
take_reader_meta_copy(rm) == rm

\* save_reader: std::exchange(_readers[shard], {}) leaves a default
\* constructed reader_meta behind.
take_reader_meta(rm) == reader_meta_default

\* Which shards save_readers calls save_reader for.
save_wanted(rm) == rm.state = "successful_lookup" \/ rm.state = "saving"

\* --------------------------------------------------------------- decisions
\* do_query_on_all_shards: the limits that make the query return at once
\* A check of the row limit alone.
has_zero_row_limit(c) == c.row_limit = 0

has_zero_limit(c) == c.row_limit = 0 \/ c.partition_row_limit = 0 \/ c.partition_limit = 0

\* A lookup_readers that looks at the page alone.
lookup_skips_first_page(c) == c.is_first_page

\* lookup_readers: the query is not stateful, or this is its first page
lookup_skips(c) == c.query_uuid = 0 \/ c.is_first_page

\* save_readers: the query is not stateful
save_skips(c) == c.query_uuid = 0

\* A do_query that saves the readers after every page.
wants_save_always(ek) == TRUE

\* do_query: r.compaction_state->are_limits_reached() || r.result.is_short_read()
wants_save(ek) == ek = "limit" \/ ek = "short"

is_short_read(ek) == ek = "short"

\* A do_query that stops the context only when the chain succeeded.
after_chain_on_success(fut) == IF fut = "failed" THEN "return" ELSE "stop"

\* do_query: what follows the lookup/read/save chain, whatever its outcome:
\* co_await ctx->stop()
after_chain(fut) == "stop"

\* The chain of do_query has resolved to fut; stop() is called unless do_query
\* goes straight to its return.
ChainDone(fut) ==
    /\ f' = fut
    /\ pc' = after_chain(fut)
    /\ stop_calls' = stop_calls + (IF after_chain(fut) = "stop" THEN 1 ELSE 0)

\* A closure of lookup_readers that keeps the querier it found without marking
\* the shard.
lookup_on_shard_unmarked(querier_opt) ==
    IF ~Has(querier_opt) THEN reader_meta("inexistent", None)
    ELSE LET q == Val(querier_opt)
         IN reader_meta("inexistent",
                Some(remote_parts(q.permit, q.range, q.slice, TRUE,
                                  Some(register_inactive_read(q.reader)))))

\* A closure of lookup_readers that takes every lookup for a miss.
lookup_on_shard_miss(querier_opt) == reader_meta("inexistent", None)

\* lookup_readers, the closure run on one shard, given what the cache lookup gave
lookup_on_shard(querier_opt) ==
    IF ~Has(querier_opt) THEN reader_meta("inexistent", None)
    ELSE LET q == Val(querier_opt)
         IN reader_meta("successful_lookup",
                Some(remote_parts(q.permit, q.range, q.slice, TRUE,
                                  Some(register_inactive_read(q.reader)))))

\* stop(): which shards it visits, and what the closure leaves of the reader_meta
stop_visits(rm) == Has(rm.rparts)

\* A closure of stop() that leaves the remote parts where they are.
stop_on_shard_keeps(rm) == rm
stop_on_shard(rm) == [rm EXCEPT !.rparts = None]

\* ------------------------------------------------------ multi_range_reader
\* Fragment n of the partition range i of the range vector.
RangeFrag(i, n) == [range |-> i, n |-> n]

\* The reader read_page makes for ranges.front() and hands to the wrapper:
\* nothing fetched yet. pos counts the fragments of the current range fetched.
underlying_reader == [buffer |-> <<>>, pos |-> 0, _end_of_stream |-> FALSE]

\* flat_mutation_reader_v2::fast_forward_to(range): the reader starts on the
\* next range with an empty buffer.
fast_forward_to(rd) == [buffer |-> <<>>, pos |-> 0, _end_of_stream |-> FALSE]

\* multi_range_reader(s, permit, rd, ranges). ranges gives the number of
\* fragments in each range; added and fetched record what the fill_buffer call
\* under way put into the wrapper's buffer and made the underlying reader fetch.
multi_range_reader(rd, ranges) ==
    [_reader |-> rd, ranges |-> ranges, _it |-> 1, buffer |-> <<>>,
     _end_of_stream |-> FALSE, pc |-> "idle", added |-> <<>>, fetched |-> <<>>]

\* The range vectors read_page wraps a reader for: more than one range.
RangeVectors == UNION {[1 .. k -> 0 .. MaxRangeLen] : k \in 2 .. MaxRanges}

\* A loop that goes on until the buffer is full, as the stock multi-range
\* reader does.
fill_goes_on_until_full(m) == Len(m.buffer) < MaxBuf

\* fill_buffer: while (is_buffer_empty())
fill_goes_on(m) == m.buffer = <<>>

\* A move that hands over the first fragment only.
move_first_fragment(rd, buf) ==
    IF rd.buffer = <<>> THEN [rd |-> rd, buf |-> buf]
    ELSE [rd |-> [rd EXCEPT !.buffer = Tail(rd.buffer)], buf |-> Append(buf, Head(rd.buffer))]

\* _reader.move_buffer_content_to(*this)
move_buffer_content_to(rd, buf) ==
    [rd |-> [rd EXCEPT !.buffer = <<>>], buf |-> buf \o rd.buffer]

mrr0 == multi_range_reader(underlying_reader, <<1, 1>>)

\* ---------------------------------------------------------- forward_service
\* The endpoints dispatch may group vnodes under: this node (0) and the others.
Endpoints == 0 .. MaxRemote

\* utils::fb_utilities::is_me
is_me(id) == id = 0

\* A forward_result tells how many times the partial result of each request
\* went into it: the partial result a request's destination computes, and
\* forward_result::merge.
partial_result_of(id) == [e \in Endpoints |-> IF e = id THEN 1 ELSE 0]
merge(a, b) == [e \in Endpoints |-> a[e] + b[e]]

\* struct request_to_dispatch: result_to_merge_with points to the result
\* shared by all requests of the dispatch ("shared") or to an object of the
\* request's own ("own"); st is where send() stands.
request_to_dispatch(id) ==
    [destination_id |-> id, st |-> "new", result_to_merge_with |-> "shared", own |-> None]

\* forward_service::dispatch up to the parallel_for_each: a dispatcher with its
\* retry, an empty shared result and one request per endpoint. closed_log
\* records what was done with each rpc::closed_error, in the order they came.
forward_dispatch(dests) ==
    [pc |-> "sending", _retry_available |-> TRUE, result |-> None,
     requests |-> [id \in dests |-> request_to_dispatch(id)],
     requests_dispatched_to_other_nodes |-> 0, closed_log |-> <<>>, out |-> None]

fwd0 == forward_dispatch({0})

\* A handler that leaves the retry available.
retry_taken_keeps(avail) == avail

\* retrying_dispatcher::dispatch_to_node, the handler of rpc::closed_error:
\* _retry_available = false
retry_taken(avail) == FALSE

\* The end of request_to_dispatch::send for the request to id, with the pointer
\* this->result_to_merge_with it finds: merge into the object pointed to if it
\* has a value, else result_to_merge_with = partial_result, which makes the
\* pointer of this request point to a new object holding the partial result.
send_merge(fw, id, partial_result) ==
    LET req == fw.requests[id]
        pointee == IF req.result_to_merge_with = "shared" THEN fw.result ELSE req.own
    IN IF Has(pointee)
       THEN IF req.result_to_merge_with = "shared"
            THEN [fw EXCEPT !.result = Some(merge(Val(pointee), partial_result)),
                            !.requests[id].st = "done"]
            ELSE [fw EXCEPT !.requests[id].own = Some(merge(Val(pointee), partial_result)),
                            !.requests[id].st = "done"]
       ELSE [fw EXCEPT !.requests[id].result_to_merge_with = "own",
                       !.requests[id].own = Some(partial_result),
                       !.requests[id].st = "done"]

\* send() resumes after co_await in a request_to_dispatch that was a by-value
\* parameter of the lambda of parallel_for_each and is gone by then: the
\* object is found as it was left, or the process goes down on the access.
send_resumes(fw, id, partial_result, intact) ==
    IF intact THEN send_merge(fw, id, partial_result) ELSE [fw EXCEPT !.pc = "crashed"]

\* The then() of dispatch: result->value() of the shared result.
dispatch_returns(fw) ==
    IF \E id \in DOMAIN fw.requests : fw.requests[id].st = "failed"
    THEN [kind |-> "error", what |-> "send", value |-> None]
    ELSE IF Has(fw.result)
    THEN [kind |-> "result", what |-> "", value |-> fw.result]
    ELSE [kind |-> "error", what |-> "bad_optional_access", value |-> None]

\* ------------------------------------------- reader lifecycle policy, called
\* The read contexts of the queries under way: each has the reader_meta of a
\* shard and the future of its page.
Queries == 1 .. NQueries

\* A read_context as constructed.
read_context == [rm |-> reader_meta_default, f |-> "pending", stopped |-> FALSE]

\* last is the last call made on a policy: on which query, which function, the
\* context it found and whether it threw; n counts the calls.
no_call == [q |-> 0, op |-> "none", pre |-> read_context, post |-> read_context,
            thrown |-> FALSE]

pol0 == [ctx |-> [q \in Queries |-> read_context], last |-> no_call, n |-> 0]

\* ------------------------------------------------------------ environment
Last(seq) == seq[Len(seq)]

FirstAfter(str, lp) ==
    IF \E i \in 1 .. Len(str) : str[i].p > lp
    THEN CHOOSE i \in 1 .. Len(str) : str[i].p > lp /\ \A j \in 1 .. (i - 1) : str[j].p <= lp
    ELSE Len(str) + 1

\* The header a reader emits when it starts inside partition lp after row c:
\* the partition start, the static row and the range tombstone open there.
Header(lp, c) ==
    <<Frag("ps", lp, 0)>>
    \o (IF HasStatic(lp) THEN <<Frag("sr", lp, 0)>> ELSE <<>>)
    \o (IF HasTomb(lp) /\ c >= 2 THEN <<Frag("rtc", lp, 1)>> ELSE <<>>)

\* The reader the mutation source of shard s makes for the range and slice of
\* the page: the caller starts them after the last row delivered.
make_reader(s) ==
    IF delivered = <<>> THEN [buf |-> <<>>, nxt |-> 1]
    ELSE LET last == Last(delivered)
             str == ShardStream(s)
         IN IF shard_of(last.p) = s
            THEN [buf |-> Header(last.p, last.c), nxt |-> IndexOf(str, last) + 1]
            ELSE [buf |-> <<>>, nxt |-> FirstAfter(str, last.p)]

\* Where the range of the page starts.
first_token == IF delivered = <<>> THEN 1 ELSE Last(delivered).p

\* compact_for_query: what consuming a fragment leaves in the compaction state
compaction_consume(cs, mf) ==
    CASE mf.k = "ps" -> [partition_start |-> mf.p, static_row |-> FALSE,
                          current_tombstone |-> FALSE, last_ckey |-> 0]
      [] mf.k = "sr" -> [cs EXCEPT !.static_row = TRUE]
      [] mf.k = "rtc" -> [cs EXCEPT !.current_tombstone = TRUE]
      [] mf.k = "row" -> [cs EXCEPT !.last_ckey = mf.c]
      [] mf.k = "pe" -> [cs EXCEPT !.current_tombstone = FALSE]

cstate0 == [partition_start |-> 0, static_row |-> FALSE,
            current_tombstone |-> FALSE, last_ckey |-> 0]

stats0 ==
    [total_reads |-> 0, total_reads_failed |-> 0, short_mutation_queries |-> 0,
     multishard_query_failed_reader_saves |-> 0,
     multishard_query_unpopped_fragments |-> 0,
     multishard_query_unpopped_bytes |-> 0]

trace0 == [cb |-> dismantle_buffer_stats, cs |-> dismantle_buffer_stats]

\* What the caller got: nothing yet, the empty result, a result (its fragments,
\* whether it is a short read, whether the query goes on) or an error.
Returned(kind, frags, short, more) ==
    [kind |-> kind, frags |-> frags, short |-> short, more |-> more]

ret0 == Returned("none", <<>>, FALSE, FALSE)

cmd0 == [query_uuid |-> 0, is_first_page |-> TRUE,
         row_limit |-> 1, partition_row_limit |-> 1, partition_limit |-> 1]

\* ------------------------------------------- what save_readers is handed
\* The fragments the combining reader yields: the partitions in token order.
RECURSIVE StreamOfAll(_)
StreamOfAll(p) == IF p > NSaveParts THEN <<>> ELSE PartStream(p) \o StreamOfAll(p + 1)

CombinedStream == StreamOfAll(1)

\* The compaction state after the first k fragments of a stream were consumed.
RECURSIVE compaction_after(_, _)
compaction_after(str, k) ==
    IF k = 0 THEN cstate0 ELSE compaction_consume(compaction_after(str, k - 1), str[k])

\* The first n elements of seq, or all it has; and what is left without them.
FirstN(seq, n) == SubSeq(seq, 1, IF n <= Len(seq) THEN n ELSE Len(seq))
WithoutFirstN(seq, n) == IF n >= Len(seq) THEN <<>> ELSE SubSeq(seq, n + 1, Len(seq))

\* The page consumed the first k fragments of the stream and the combining
\* reader had buffered the n that follow: the unconsumed buffer read_page
\* detaches.
unconsumed_buffer(k, n) == FirstN(WithoutFirstN(CombinedStream, k), n)

\* The fragments of shard s that follow the first j fragments of the stream.
FollowingOf(s, j) ==
    LET OfShard(mf) == shard_of(mf.p) = s
    IN SelectSeq(WithoutFirstN(CombinedStream, j), OfShard)

\* The reader_meta of shard s in saving, as destroy_reader leaves it: the shard
\* reader had u fragments buffered past the first j of the stream and its
\* underlying reader b more; the underlying reader is parked (live) or was
\* evicted since.
saving_reader_meta(s, j, u, b, live) ==
    LET rest == FollowingOf(s, j)
        own == FirstN(WithoutFirstN(rest, u), b)
        nxt == Len(FollowingOf(s, 0)) - Len(rest) + u + b + 1
        handle == IF live THEN register_inactive_read(Reader(s + 1, own, nxt))
                  ELSE moved_from_handle
    IN [reader_meta("saving", Some(remote_parts(s + 1, 1, 1, TRUE, None)))
           EXCEPT !.rparts = Some([Val(@) EXCEPT !.handle = Some(handle),
                                                 !.buffer = Some(FirstN(rest, u))])]

\* The entries shard s can have in _readers when save_readers is called, the
\* first j fragments of the stream being consumed or in the unconsumed
\* buffer: never read (inexistent, or looked up and still parked), read and
\* not stopped (used), or read and stopped (saving).
ReaderMetasAtSave(s, j) ==
    {reader_meta("inexistent", None),
     reader_meta("successful_lookup",
                 Some(remote_parts(s + 1, 1, 1, TRUE,
                                   Some(register_inactive_read(Reader(s + 1, <<>>, 1)))))),
     reader_meta("used", Some(remote_parts(s + 1, 1, 1, TRUE, None)))}
    \cup {saving_reader_meta(s, j, u, b, live) :
             u \in {0, 1}, b \in {0, 1}, live \in BOOLEAN}

\* A shard some fragment of seq, or the partition of pkey, comes from.
WasRead(s, seq, pkey) ==
    shard_of(pkey) = s \/ \E i \in 1 .. Len(seq) : shard_of(seq[i].p) = s

\* A call of save_readers: the page consumed k fragments, n were buffered by
\* the combining reader, and the shards are in the states rds.
save_readers_call(k, n, rds) ==
    [pc |-> "called",
     unconsumed_buffer |-> unconsumed_buffer(k, n),
     compaction_state |-> compaction_after(CombinedStream, k),
     given |-> rds,
     before |-> rds,
     readers |-> rds,
     cb_stats |-> dismantle_buffer_stats,
     cs_stats |-> dismantle_buffer_stats,
     saved |-> [s \in Shards |-> None]]

\* The entries shard s can have when save_readers is called with buffer buf
\* after k fragments were consumed: a shard that was read is in used or in
\* saving.
ReaderMetasOfCall(s, k, buf) ==
    IF WasRead(s, buf, CombinedStream[k].p)
    THEN {rm \in ReaderMetasAtSave(s, k + Len(buf)) : rm.state \in {"used", "saving"}}
    ELSE ReaderMetasAtSave(s, k + Len(buf))

\* The states the shards can be in at a call of save_readers with n fragments
\* buffered after k were consumed.
ReadersOfCall(k, n) ==
    LET metas == [s \in Shards |-> ReaderMetasOfCall(s, k, unconsumed_buffer(k, n))]
    IN {r \in [Shards -> UNION {metas[s] : s \in Shards}] :
           \A s \in Shards : r[s] \in metas[s]}

\* No call of save_readers yet.
dis0 == [save_readers_call(1, 0, [s \in Shards |-> reader_meta_default])
            EXCEPT !.pc = "idle"]

\* ------------------------------------------- lookup_readers and semaphores
\* The reader concurrency semaphores of a shard, one per class of queries.
Semaphores == {"user", "system"}

\* A call that runs the closure on the shard of the caller.
invoke_locally(coordinator, shard) == coordinator

\* The shard that runs a closure given to _db.invoke_on(shard, ...) by the
\* coordinator.
invoke_on(coordinator, shard) == shard

\* A permit of a semaphore; reader_permit::semaphore()
permit_of(semaphore, n) == [semaphore |-> semaphore, n |-> n]
semaphore_of(permit) == permit.semaphore

\* A closure of lookup_readers that takes the querier of any semaphore.
lookup_closure_unchecked(rm, querier_opt, semaphore) ==
    [thrown |-> FALSE, rm |-> lookup_on_shard(querier_opt)]

\* The closure of lookup_readers on a shard whose semaphore for the query is
\* semaphore and whose entry is rm, given what the cache lookup returned.
lookup_closure(rm, querier_opt, semaphore) ==
    IF ~Has(querier_opt) THEN [thrown |-> FALSE, rm |-> lookup_on_shard(querier_opt)]
    ELSE IF semaphore_of(Val(querier_opt).permit) # semaphore
    THEN [thrown |-> TRUE, rm |-> rm]
    ELSE [thrown |-> FALSE, rm |-> lookup_on_shard(querier_opt)]

\* The querier a page run under the class of semaphore left in the cache of
\* shard s.
cached_querier(s, semaphore) ==
    shard_mutation_querier(1, 1, Reader(permit_of(semaphore, s + 1), <<>>, 1),
                           permit_of(semaphore, s + 1), 0, 0)

\* A read_context before lookup_readers, over caches that hold nothing.
lk0 == [pc |-> "idle",
        semaphore |-> "user",
        cache |-> [s \in Shards |-> None],
        found |-> [s \in Shards |-> None],
        _readers |-> [s \in Shards |-> reader_meta_default],
        looked |-> {},
        f |-> "pending",
        evicted |-> {},
        stopped |-> {},
        closed |-> {},
        coordinator |-> 0,
        made_on |-> [s \in Shards |-> {}],
        freed_on |-> [s \in Shards |-> {}]]

\* ---------------------------------------------------------- load_broadcaster
\* load_broadcaster after construction: the timer is not armed, nothing was
\* published.
\* timer is _timer; _done is the member future: of no broadcast yet ("none"),
\* ready, of the broadcast in flight ("pending") or moved from; broadcast tells
\* whether a map_reduce0 and its continuation are in flight; stop is the
\* future stop_broadcasting returned; load is the LOAD state gossiped last.
lb0 == [started |-> FALSE,
        timer |-> "idle",
        _done |-> "none",
        broadcast |-> "none",
        stop |-> "no",
        load |-> 0,
        published |-> 0,
        published_after_stop |-> 0]

QueryIdle ==
    /\ cmd = cmd0
    /\ pc = "idle"
    /\ pageno = 0
    /\ _readers = [s \in Shards |-> reader_meta_default]
    /\ looked = {}
    /\ f = "pending"
    /\ shard_readers = [s \in Shards |-> None]
    /\ created = {}
    /\ tok = 1
    /\ combined = <<>>
    /\ cstate = cstate0
    /\ page = <<>>
    /\ endkind = "none"
    /\ closed = {}
    /\ dismantled = 0
    /\ saving_rm = [s \in Shards |-> None]
    /\ saved = [s \in Shards |-> "no"]
    /\ stopped = {}
    /\ stop_calls = 0
    /\ querier_cache = [s \in Shards |-> None]
    /\ stats = stats0
    /\ ret = ret0
    /\ delivered = <<>>
    /\ trace = trace0
    /\ snap = [inflight |-> [s \in Shards |-> {}], cache |-> [s \in Shards |-> None]]

Init ==
    /\ QueryIdle
    /\ mrr = mrr0
    /\ fwd = fwd0
    /\ pol = pol0
    /\ dis = dis0
    /\ lk = lk0
    /\ lb = lb0

ctxVars == <<_readers, looked, f>>
readVars == <<shard_readers, created, tok, combined, cstate, page, endkind, closed>>
saveVars == <<dismantled, saving_rm, saved, trace>>
stopVars == <<stopped, stop_calls>>

\* Closures sent to different shards run in parallel, each on the entry of its
\* own shard only: they are taken in the order of the shards.
FirstOf(S) == CHOOSE s \in S : \A u \in S : s <= u

\* ------------------------------------------------- do_query_on_all_shards
\* query_mutations_on_all_shards / query_data_on_all_shards is called for a page:
\* the first page of a query, or the next page of a stateful query whose last
\* page left data. A stateless query carries nothing from one page to the
\* next: each of its pages is a query of its own, marked as a first page or not.
StartQuery ==
    /\ pc = "idle"
    /\ pageno < MaxPages
    /\ pageno = 0 \/ (ret.kind = "result" /\ ret.more /\ cmd.query_uuid # 0)
    /\ \E uuid \in (IF pageno = 0 THEN {0, 1} ELSE {cmd.query_uuid}),
          first \in BOOLEAN, rl \in {0, 1}, prl \in {0, 1}, pl \in {0, 1} :
          /\ uuid # 0 => first = (pageno = 0)
          /\ cmd' = [query_uuid |-> uuid, is_first_page |-> first,
                  row_limit |-> rl, partition_row_limit |-> prl, partition_limit |-> pl]
    /\ pc' = "entry"
    /\ snap' = [inflight |-> [s \in Shards |-> InFlight(s)], cache |-> querier_cache]
    /\ ret' = ret0
    /\ stats' = stats0
    /\ UNCHANGED <<pageno, ctxVars, readVars, saveVars, stopVars, querier_cache,
                   delivered>>
    /\ UNCHANGED unitVars

\* A zero limit: the empty result is returned at once.
ZeroLimitReturn ==
    /\ pc = "entry"
    /\ has_zero_limit(cmd)
    /\ ret' = Returned("empty", <<>>, FALSE, FALSE)
    /\ pc' = "idle"
    /\ pageno' = pageno + 1
    /\ UNCHANGED <<cmd, ctxVars, readVars, saveVars, stopVars, querier_cache, stats,
                   delivered, snap>>
    /\ UNCHANGED unitVars

\* new_mutation_read() throws: the catch block counts a failed read.
AccounterFail ==
    /\ pc = "entry"
    /\ ~has_zero_limit(cmd)
    /\ stats' = [stats EXCEPT !.total_reads_failed = @ + 1]
    /\ ret' = Returned("error", <<>>, FALSE, FALSE)
    /\ pc' = "idle"
    /\ pageno' = pageno + 1
    /\ UNCHANGED <<cmd, ctxVars, readVars, saveVars, stopVars, querier_cache, delivered,
                   snap>>
    /\ UNCHANGED unitVars

\* do_query: the read_context of the page is constructed.
DoQuery ==
    /\ pc = "entry"
    /\ ~has_zero_limit(cmd)
    /\ tok' = first_token
    /\ pc' = "lookup"
    /\ UNCHANGED <<ctxVars, shard_readers, created, combined, cstate, page, endkind,
                   closed, saveVars, stopVars>>
    /\ UNCHANGED <<cmd, pageno, querier_cache, stats, ret, delivered, snap>>
    /\ UNCHANGED unitVars

\* ----------------------------------------------------------- lookup_readers
LookupSkip ==
    /\ pc = "lookup"
    /\ lookup_skips(cmd)
    /\ pc' = "read"
    /\ UNCHANGED <<cmd, pageno, ctxVars, readVars, saveVars, stopVars, querier_cache,
                   stats, ret, delivered, snap>>
    /\ UNCHANGED unitVars

\* The closure of lookup_readers on shard s: the cache lookup takes the querier
\* out of the cache.
LookupShard(s) ==
    /\ pc = "lookup"
    /\ ~lookup_skips(cmd)
    /\ s \notin looked
    /\ s = FirstOf(Shards \ looked)
    /\ _readers' = [_readers EXCEPT ![s] = lookup_on_shard(querier_cache[s])]
    /\ querier_cache' = [querier_cache EXCEPT ![s] = None]
    /\ looked' = looked \cup {s}
    /\ UNCHANGED <<cmd, pc, pageno, f, readVars, saveVars, stopVars, stats, ret,
                   delivered, snap>>
    /\ UNCHANGED unitVars

\* The cache lookup on shard s throws (its deadline expired).
LookupShardFail(s) ==
    /\ pc = "lookup"
    /\ ~lookup_skips(cmd)
    /\ s \notin looked
    /\ s = FirstOf(Shards \ looked)
    /\ f' = "failed"
    /\ looked' = looked \cup {s}
    /\ UNCHANGED <<cmd, pc, pageno, _readers, readVars, saveVars, stopVars,
                   querier_cache, stats, ret, delivered, snap>>
    /\ UNCHANGED unitVars

\* invoke_on_all has finished on every shard.
LookupDone ==
    /\ pc = "lookup"
    /\ ~lookup_skips(cmd)
    /\ looked = Shards
    /\ IF f = "failed"
       THEN ChainDone("failed")
       ELSE pc' = "read" /\ UNCHANGED <<f, stop_calls>>
    /\ UNCHANGED <<cmd, pageno, _readers, looked, readVars, saveVars, stopped,
                   querier_cache, stats, ret, delivered, snap>>
    /\ UNCHANGED unitVars

\* ---------------------------------------------------------------- read_page
\* The shard the combining reader reads from.
cur_shard == shard_of(tok)

\* The combining reader asks the lifecycle policy for a permit and a reader on
\* shard s: at its first use of the shard, or after its reader was evicted.
CreateReader(s) ==
    /\ pc = "read"
    /\ tok <= NParts
    /\ s = cur_shard
    /\ IF Has(shard_readers[s]) THEN ~Val(shard_readers[s]).live ELSE TRUE
    /\ LET rm == _readers[s]
           permit == obtain_reader_permit(rm, s)
           made == IF Has(shard_readers[s])
                   THEN [buf |-> <<>>, nxt |-> Val(shard_readers[s]).nxt]
                   ELSE make_reader(s)
           res == create_reader(rm, permit, made)
       IN /\ _readers' = [_readers EXCEPT ![s] = res.rm]
          /\ IF res.thrown
             THEN /\ f' = "failed"
                  /\ pc' = "closing"
                  /\ UNCHANGED <<shard_readers, created>>
             ELSE /\ shard_readers' = [shard_readers EXCEPT ![s] =
                        Some([permit |-> Val(res.reader).permit,
                              buf |-> (IF Has(shard_readers[s])
                                       THEN Val(shard_readers[s]).buf ELSE <<>>)
                                      \o Val(res.reader).buf,
                              nxt |-> Val(res.reader).nxt,
                              live |-> TRUE])]
                  /\ created' = created \cup {s}
                  /\ UNCHANGED <<f, pc>>
    /\ UNCHANGED <<cmd, pageno, looked, tok, combined, cstate, page, endkind, closed,
                   saveVars, stopVars, querier_cache, stats, ret, delivered, snap>>
    /\ UNCHANGED unitVars

\* The shard reader of shard s fills its buffer from the mutation source.
ShardFill(s) ==
    /\ pc = "read"
    /\ tok <= NParts
    /\ s = cur_shard
    /\ Has(shard_readers[s])
    /\ LET sr == Val(shard_readers[s])
           str == ShardStream(s)
       IN /\ sr.live
          /\ sr.buf = <<>>
          /\ \E n \in 1 .. MaxBuf :
                /\ sr.nxt + n - 1 <= Len(str)
                /\ shard_readers' = [shard_readers EXCEPT ![s] =
                       Some([sr EXCEPT !.buf = SubSeq(str, sr.nxt, sr.nxt + n - 1),
                                       !.nxt = sr.nxt + n])]
    /\ UNCHANGED <<cmd, pc, pageno, ctxVars, created, tok, combined, cstate, page,
                   endkind, closed, saveVars, stopVars, querier_cache, stats, ret,
                   delivered, snap>>
    /\ UNCHANGED unitVars

\* The combining reader moves the next fragment of the current shard into its
\* own buffer.
Combine ==
    /\ pc = "read"
    /\ tok <= NParts
    /\ Len(combined) < MaxBuf
    /\ Has(shard_readers[cur_shard])
    /\ LET sr == Val(shard_readers[cur_shard])
       IN /\ sr.buf # <<>>
          /\ ~(is_partition_start(Head(sr.buf)) /\ Head(sr.buf).p > tok)
          /\ combined' = Append(combined, Head(sr.buf))
          /\ shard_readers' = [shard_readers EXCEPT ![cur_shard] =
                                  Some([sr EXCEPT !.buf = Tail(sr.buf)])]
    /\ UNCHANGED <<cmd, pc, pageno, ctxVars, created, tok, cstate, page, endkind,
                   closed, saveVars, stopVars, querier_cache, stats, ret, delivered,
                   snap>>
    /\ UNCHANGED unitVars

\* The current shard has nothing more for the token: on to the next shard.
NextShard ==
    /\ pc = "read"
    /\ tok <= NParts
    /\ Has(shard_readers[cur_shard])
    /\ LET sr == Val(shard_readers[cur_shard])
       IN \/ sr.buf # <<>> /\ is_partition_start(Head(sr.buf)) /\ Head(sr.buf).p > tok
          \/ sr.buf = <<>> /\ sr.live /\ sr.nxt > Len(ShardStream(cur_shard))
    /\ tok' = tok + 1
    /\ UNCHANGED <<cmd, pc, pageno, ctxVars, shard_readers, created, combined, cstate,
                   page, endkind, closed, saveVars, stopVars, querier_cache, stats, ret,
                   delivered, snap>>
    /\ UNCHANGED unitVars

\* consume_page feeds the next fragment of the combining reader to the
\* compaction state and the result builder.
Consume ==
    /\ pc = "read"
    /\ combined # <<>>
    /\ page' = Append(page, Head(combined))
    /\ delivered' = Append(delivered, Head(combined))
    /\ cstate' = compaction_consume(cstate, Head(combined))
    /\ combined' = Tail(combined)
    /\ UNCHANGED <<cmd, pc, pageno, ctxVars, shard_readers, created, tok, endkind,
                   closed, saveVars, stopVars, querier_cache, stats, ret, snap>>
    /\ UNCHANGED unitVars

\* consume_page returns: a limit was reached or the result is a short read
\* (after a row), or the reader is at the end of its stream. read_page detaches
\* the buffer and closes the reader.
EndPage(kind) ==
    /\ pc = "read"
    /\ IF kind = "eos"
       THEN tok > NParts /\ combined = <<>>
       ELSE page # <<>> /\ Last(page).k = "row"
    /\ endkind' = kind
    /\ pc' = "closing"
    /\ UNCHANGED <<cmd, pageno, ctxVars, shard_readers, created, tok, combined, cstate,
                   page, closed, saveVars, stopVars, querier_cache, stats, ret,
                   delivered, snap>>
    /\ UNCHANGED unitVars

\* A read_page that returns the error of consume_page at once.
ReadFailUnclosed ==
    /\ pc = "read"
    /\ combined = <<>>
    /\ ChainDone("failed")
    /\ UNCHANGED <<cmd, pageno, _readers, looked, readVars, saveVars, stopped,
                   querier_cache, stats, ret, delivered, snap>>
    /\ UNCHANGED unitVars

\* consume_page fails: the deadline expired in the fill_buffer or the permit
\* acquisition it waits for when the buffer is empty. read_page closes the
\* reader and returns the exception.
ReadFail ==
    /\ pc = "read"
    /\ combined = <<>>
    /\ f' = "failed"
    /\ pc' = "closing"
    /\ UNCHANGED <<cmd, pageno, _readers, looked, readVars, saveVars, stopVars,
                   querier_cache, stats, ret, delivered, snap>>
    /\ UNCHANGED unitVars

\* The semaphore evicts the paused shard reader of shard s during the page,
\* before the combining reader comes back to it for more.
EvictDuringRead(s) ==
    /\ pc = "read"
    /\ tok <= NParts
    /\ s = cur_shard
    /\ Has(shard_readers[s])
    /\ Val(shard_readers[s]).live
    /\ Val(shard_readers[s]).buf = <<>>
    /\ shard_readers' = [shard_readers EXCEPT ![s] =
                            Some([Val(shard_readers[s]) EXCEPT !.live = FALSE])]
    /\ UNCHANGED <<cmd, pc, pageno, ctxVars, created, tok, combined, cstate, page,
                   endkind, closed, saveVars, stopVars, querier_cache, stats, ret,
                   delivered, snap>>
    /\ UNCHANGED unitVars

\* reader.close(): the shard reader of shard s is stopped and handed to
\* destroy_reader with its inactive read handle and unconsumed fragments.
DestroyReader(s) ==
    /\ pc = "closing"
    /\ s \in created \ closed
    /\ s = FirstOf(created \ closed)
    /\ LET sr == Val(shard_readers[s])
           stopped_reader ==
               [handle |-> IF sr.live
                           THEN register_inactive_read(Reader(sr.permit, <<>>, sr.nxt))
                           ELSE moved_from_handle,
                unconsumed_fragments |-> sr.buf]
       IN _readers' = [_readers EXCEPT ![s] = destroy_reader(_readers[s], stopped_reader)]
    /\ shard_readers' = [shard_readers EXCEPT ![s] = None]
    /\ closed' = closed \cup {s}
    /\ UNCHANGED <<cmd, pc, pageno, looked, f, created, tok, combined, cstate, page,
                   endkind, saveVars, stopVars, querier_cache, stats, ret, delivered,
                   snap>>
    /\ UNCHANGED unitVars

\* Stopping the shard reader of shard s fails: destroy_reader is not called.
StopReaderFails(s) ==
    /\ pc = "closing"
    /\ s \in created \ closed
    /\ s = FirstOf(created \ closed)
    /\ shard_readers' = [shard_readers EXCEPT ![s] = None]
    /\ closed' = closed \cup {s}
    /\ UNCHANGED <<cmd, pc, pageno, ctxVars, created, tok, combined, cstate, page,
                   endkind, saveVars, stopVars, querier_cache, stats, ret, delivered,
                   snap>>
    /\ UNCHANGED unitVars

\* A read_page that returns without waiting for the close of the reader.
CloseDoneEarly ==
    /\ pc = "closing"
    /\ IF f # "failed" /\ wants_save(endkind)
       THEN pc' = "save" /\ UNCHANGED <<f, stop_calls>>
       ELSE ChainDone(IF f = "failed" THEN "failed" ELSE "ok")
    /\ UNCHANGED <<cmd, pageno, _readers, looked, readVars, saveVars, stopped,
                   querier_cache, stats, ret, delivered, snap>>
    /\ UNCHANGED unitVars

\* The reader is closed: do_query goes on to save_readers or to stop().
CloseDone ==
    /\ pc = "closing"
    /\ closed = created
    /\ IF f # "failed" /\ wants_save(endkind)
       THEN pc' = "save" /\ UNCHANGED <<f, stop_calls>>
       ELSE ChainDone(IF f = "failed" THEN "failed" ELSE "ok")
    /\ UNCHANGED <<cmd, pageno, _readers, looked, readVars, saveVars, stopped,
                   querier_cache, stats, ret, delivered, snap>>
    /\ UNCHANGED unitVars

\* -------------------------------------------------------------- save_readers
SaveSkip ==
    /\ pc = "save"
    /\ save_skips(cmd)
    /\ ChainDone("ok")
    /\ UNCHANGED <<cmd, pageno, _readers, looked, readVars, saveVars, stopped,
                   querier_cache, stats, ret, delivered, snap>>
    /\ UNCHANGED unitVars

\* save_readers: the unconsumed buffer of the page is dismantled.
DismantleCombined ==
    /\ pc = "save"
    /\ ~save_skips(cmd)
    /\ dismantled = 0
    /\ LET r == dismantle_combined_buffer(_readers, combined, cstate.partition_start)
       IN /\ _readers' = r.readers
          /\ trace' = [trace EXCEPT !.cb = r.stats]
    /\ dismantled' = 1
    /\ UNCHANGED <<cmd, pc, pageno, looked, f, readVars, saving_rm, saved, stopVars,
                   querier_cache, stats, ret, delivered, snap>>
    /\ UNCHANGED unitVars

\* save_readers: the detached compaction state is dismantled.
DismantleCompaction ==
    /\ pc = "save"
    /\ dismantled = 1
    /\ LET r == dismantle_compaction_state(_readers, cstate)
       IN /\ _readers' = r.readers
          /\ trace' = [trace EXCEPT !.cs = r.stats]
    /\ dismantled' = 2
    /\ UNCHANGED <<cmd, pc, pageno, looked, f, readVars, saving_rm, saved, stopVars,
                   querier_cache, stats, ret, delivered, snap>>
    /\ UNCHANGED unitVars

\* save_readers: save_reader is called for every shard in successful_lookup or
\* saving; each call takes the reader_meta out of _readers at once.
SaveStart ==
    /\ pc = "save"
    /\ dismantled = 2
    /\ saving_rm' = [s \in Shards |->
                        IF save_wanted(_readers[s]) THEN Some(_readers[s]) ELSE None]
    /\ _readers' = [s \in Shards |->
                       IF save_wanted(_readers[s]) THEN take_reader_meta(_readers[s])
                       ELSE _readers[s]]
    /\ dismantled' = 3
    /\ UNCHANGED <<cmd, pc, pageno, looked, f, readVars, saved, trace, stopVars,
                   querier_cache, stats, ret, delivered, snap>>
    /\ UNCHANGED unitVars

RECURSIVE BytesOf(_)
BytesOf(frags) == IF frags = <<>> THEN 0 ELSE memory_usage(Head(frags)) + BytesOf(Tail(frags))

\* A save_reader that saves a querier whether the reader is still parked or not.
save_reader_on_shard_always(rm, last_pkey, last_ckey) ==
    LET rparts == Val(rm.rparts)
    IN [querier |-> Some(shard_mutation_querier(rparts.range, rparts.slice,
                                                Reader(rparts.permit, <<>>, 1),
                                                rparts.permit, last_pkey, last_ckey)),
        fragments |-> 0, bytes |-> 0]

\* The body of the closure save_reader runs on the shard, when nothing throws:
\* the querier to insert, if the reader is still there, and what is counted.
save_reader_on_shard(rm, last_pkey, last_ckey) ==
    LET rparts == Val(rm.rparts)
        reader_opt == unregister_inactive_read(Val(rparts.handle))
    IN IF ~Has(reader_opt)
       THEN [querier |-> None, fragments |-> 0, bytes |-> 0]
       ELSE LET reader == Val(reader_opt)
                buf == save_reader_unpop(reader, rparts, rm)
            IN [querier |-> Some(shard_mutation_querier(
                                rparts.range, rparts.slice,
                                Reader(reader.permit, buf, reader.nxt),
                                rparts.permit, last_pkey, last_ckey)),
                fragments |-> save_reader_fragments(rparts, rm),
                bytes |-> BytesOf(buf) - BytesOf(reader.buf)]

\* How many of the last fragments of buf are the fragments of str right before
\* index nxt.
RECURSIVE OwnSuffix(_, _, _)
OwnSuffix(buf, str, nxt) ==
    IF buf # <<>> /\ nxt > 1 /\ buf[Len(buf)] = str[nxt - 1]
    THEN 1 + OwnSuffix(SubSeq(buf, 1, Len(buf) - 1), str, nxt - 1)
    ELSE 0

\* A parked reader of shard s is the fragments it will yield: the fragments of
\* its buffer that continue into the rest of the shard's stream are told by
\* the position in the stream alone.
parked(s, reader) ==
    LET k == OwnSuffix(reader.buf, ShardStream(s), reader.nxt)
    IN Reader(reader.permit, SubSeq(reader.buf, 1, Len(reader.buf) - k), reader.nxt - k)

\* querier_cache::insert on shard s: an entry already there is closed and
\* replaced.
cache_insert(s, entry, querier) ==
    Some([querier EXCEPT !.reader = parked(s, querier.reader)])

\* The closure of save_reader runs on shard s.
SaveReader(s) ==
    /\ pc = "save"
    /\ dismantled = 3
    /\ Has(saving_rm[s])
    /\ s = FirstOf({u \in Shards : Has(saving_rm[u])})
    /\ LET r == save_reader_on_shard(Val(saving_rm[s]), cstate.partition_start,
                                     cstate.last_ckey)
       IN /\ querier_cache' = IF Has(r.querier)
                              THEN [querier_cache EXCEPT
                                       ![s] = cache_insert(s, @, Val(r.querier))]
                              ELSE querier_cache
          /\ stats' = IF Has(r.querier)
                      THEN [stats EXCEPT
                               !.multishard_query_unpopped_fragments = @ + r.fragments,
                               !.multishard_query_unpopped_bytes = @ + r.bytes]
                      ELSE stats
          /\ saved' = [saved EXCEPT ![s] = IF Has(r.querier) THEN "inserted" ELSE "evicted"]
    /\ saving_rm' = [saving_rm EXCEPT ![s] = None]
    /\ UNCHANGED <<cmd, pc, pageno, ctxVars, readVars, dismantled, trace, stopVars, ret,
                   delivered, snap>>
    /\ UNCHANGED unitVars

\* A save_reader that swallows the exception without counting it.
save_reader_failed_uncounted(st) == st

\* What save_reader does with an exception, thrown inside the closure or by the
\* cross-shard invocation: it is logged and counted.
save_reader_failed(st) == [st EXCEPT !.multishard_query_failed_reader_saves = @ + 1]

\* The closure of save_reader throws on shard s, or invoke_on itself fails.
SaveReaderFails(s) ==
    /\ pc = "save"
    /\ dismantled = 3
    /\ Has(saving_rm[s])
    /\ s = FirstOf({u \in Shards : Has(saving_rm[u])})
    /\ stats' = save_reader_failed(stats)
    /\ saved' = [saved EXCEPT ![s] = "failed"]
    /\ saving_rm' = [saving_rm EXCEPT ![s] = None]
    /\ UNCHANGED <<cmd, pc, pageno, ctxVars, readVars, dismantled, trace, stopVars,
                   querier_cache, ret, delivered, snap>>
    /\ UNCHANGED unitVars

\* Every save_reader has resolved: save_readers returns, the chain succeeded.
SaveDone ==
    /\ pc = "save"
    /\ dismantled = 3
    /\ \A s \in Shards : ~Has(saving_rm[s])
    /\ ChainDone("ok")
    /\ UNCHANGED <<cmd, pageno, _readers, looked, readVars, saveVars, stopped,
                   querier_cache, stats, ret, delivered, snap>>
    /\ UNCHANGED unitVars

\* ---------------------------------------------------------------------- stop
\* The closure of stop() on shard s: the remote parts are released on their
\* shard and the reader, if still registered, is unregistered and closed.
StopShard(s) ==
    /\ pc = "stop"
    /\ s \notin stopped
    /\ stop_visits(_readers[s])
    /\ s = FirstOf({u \in Shards \ stopped : stop_visits(_readers[u])})
    /\ _readers' = [_readers EXCEPT ![s] = stop_on_shard(@)]
    /\ stopped' = stopped \cup {s}
    /\ UNCHANGED <<cmd, pc, pageno, looked, f, readVars, saveVars, stop_calls,
                   querier_cache, stats, ret, delivered, snap>>
    /\ UNCHANGED unitVars

\* Every closure of stop() has resolved: stop() returns.
StopDone ==
    /\ pc = "stop"
    /\ \A s \in Shards : s \in stopped \/ ~stop_visits(_readers[s])
    /\ pc' = "return"
    /\ UNCHANGED <<cmd, pageno, ctxVars, readVars, saveVars, stopVars, querier_cache,
                   stats, ret, delivered, snap>>
    /\ UNCHANGED unitVars

\* A count that takes every read for a successful one first.
count_read_always(st, failed, short) ==
    [st EXCEPT !.total_reads = @ + 1,
               !.total_reads_failed = @ + (IF failed THEN 1 ELSE 0),
               !.short_mutation_queries = @ + (IF short THEN 1 ELSE 0)]

\* do_query_on_all_shards: the counters bumped when do_query has returned
count_read(st, failed, short) ==
    IF failed THEN [st EXCEPT !.total_reads_failed = @ + 1]
    ELSE [st EXCEPT !.total_reads = @ + 1,
                    !.short_mutation_queries = @ + (IF short THEN 1 ELSE 0)]

\* A do_query that hands out what the page had built when the chain failed.
query_result_partial(fut, built, ek) ==
    IF fut = "failed"
    THEN Returned("error", built, FALSE, FALSE)
    ELSE Returned("result", built, is_short_read(ek), wants_save(ek))

\* do_query: the exception of the chain is rethrown, else the result built by
\* the page is returned.
query_result(fut, built, ek) ==
    IF fut = "failed"
    THEN Returned("error", <<>>, FALSE, FALSE)
    ELSE Returned("result", built, is_short_read(ek), wants_save(ek))

\* do_query returns the result or the exception of the chain, and the
\* read_context of the page is destroyed.
Return ==
    /\ pc = "return"
    /\ stats' = count_read(stats, f = "failed", is_short_read(endkind))
    /\ ret' = query_result(f, page, endkind)
    /\ pc' = "idle"
    /\ pageno' = pageno + 1
    /\ _readers' = [s \in Shards |-> reader_meta_default]
    /\ looked' = {}
    /\ f' = "pending"
    /\ shard_readers' = [s \in Shards |-> None]
    /\ created' = {}
    /\ tok' = 1
    /\ combined' = <<>>
    /\ cstate' = cstate0
    /\ page' = <<>>
    /\ endkind' = "none"
    /\ closed' = {}
    /\ dismantled' = 0
    /\ saving_rm' = [s \in Shards |-> None]
    /\ saved' = [s \in Shards |-> "no"]
    /\ stopped' = {}
    /\ stop_calls' = 0
    /\ trace' = trace0
    /\ UNCHANGED <<cmd, querier_cache, delivered, snap>>
    /\ UNCHANGED unitVars

\* ------------------------------------------------------------------ eviction
evict(rm) ==
    [rm EXCEPT !.rparts = Some([Val(rm.rparts) EXCEPT !.handle = Some(moved_from_handle)])]

can_evict(rm) ==
    /\ Has(rm.rparts)
    /\ Has(Val(rm.rparts).handle)
    /\ Has(Val(Val(rm.rparts).handle).reader)

\* The semaphore of shard s evicts the inactive read the read_context holds a
\* handle of.
EvictInactive(s) ==
    /\ \/ /\ pc = "read"
          /\ can_evict(_readers[s])
          /\ _readers' = [_readers EXCEPT ![s] = evict(@)]
          /\ UNCHANGED saving_rm
       \/ /\ pc = "save"
          /\ Has(saving_rm[s])
          /\ s = FirstOf({u \in Shards : Has(saving_rm[u])})
          /\ can_evict(Val(saving_rm[s]))
          /\ saving_rm' = [saving_rm EXCEPT ![s] = Some(evict(Val(@)))]
          /\ UNCHANGED _readers
    /\ UNCHANGED <<cmd, pc, pageno, looked, f, readVars, dismantled, saved, trace,
                   stopVars, querier_cache, stats, ret, delivered, snap>>
    /\ UNCHANGED unitVars

\* The querier cache of shard s drops its entry between two pages (its TTL
\* expired, or memory was needed).
CacheEvict(s) ==
    /\ pc = "idle"
    /\ Has(querier_cache[s])
    /\ querier_cache' = [querier_cache EXCEPT ![s] = None]
    /\ UNCHANGED <<cmd, pc, pageno, ctxVars, readVars, saveVars, stopVars, stats, ret,
                   delivered, snap>>
    /\ UNCHANGED unitVars

\* ------------------------------------------------------------- specification
Next ==
    \/ StartQuery
    \/ ZeroLimitReturn
    \/ AccounterFail
    \/ DoQuery
    \/ LookupSkip
    \/ \E s \in Shards : LookupShard(s)
    \/ \E s \in Shards : LookupShardFail(s)
    \/ LookupDone
    \/ \E s \in Shards : CreateReader(s)
    \/ \E s \in Shards : ShardFill(s)
    \/ Combine
    \/ NextShard
    \/ Consume
    \/ \E kind \in {"limit", "short", "eos"} : EndPage(kind)
    \/ ReadFail
    \/ \E s \in Shards : EvictDuringRead(s)
    \/ \E s \in Shards : DestroyReader(s)
    \/ \E s \in Shards : StopReaderFails(s)
    \/ CloseDone
    \/ SaveSkip
    \/ DismantleCombined
    \/ DismantleCompaction
    \/ SaveStart
    \/ \E s \in Shards : SaveReader(s)
    \/ \E s \in Shards : SaveReaderFails(s)
    \/ SaveDone
    \/ \E s \in Shards : StopShard(s)
    \/ StopDone
    \/ Return
    \/ \E s \in Shards : EvictInactive(s)
    \/ \E s \in Shards : CacheEvict(s)

Spec == Init /\ [][Next]_vars

\* ===================================================================== claims
SaveFailed == \E s \in Shards : saved[s] = "failed"

\* C1: a failure while saving a shard's reader never fails the read: the chain
\* of do_query still succeeds, so that the page that was built is what do_query
\* returns, and multishard_query_failed_reader_saves has been incremented at
\* least once.
C1_SaveFailureNeverFailsRead ==
    SaveFailed =>
        /\ f # "failed"
        /\ stats.multishard_query_failed_reader_saves >= 1
        /\ pc = "return" =>
              /\ f = "ok"
              /\ query_result(f, page, endkind).kind = "result"
              /\ query_result(f, page, endkind).frags = page

\* A page with rows is about to be returned after the save of a reader failed.
C1_Witness ==
    /\ pc = "return"
    /\ SaveFailed
    /\ \E i \in 1 .. Len(page) : page[i].k = "row"

\* C2: in every execution of do_query, stop() is invoked exactly once, after
\* the lookup/read/save chain has finished and before do_query returns, whether
\* the chain succeeded or failed; when do_query returns, stop() has completed on
\* every shard that held remote parts.
C2_StopExactlyOnce ==
    /\ pc \in {"lookup", "read", "closing", "save"} => stop_calls = 0
    /\ pc \in {"stop", "return"} => stop_calls = 1 /\ f \in {"ok", "failed"}
    /\ pc = "return" => \A s \in Shards : ~Has(_readers[s].rparts)

\* do_query is about to rethrow the error of a failed chain, after a stop() that
\* had remote parts to release.
C2_Witness ==
    /\ pc = "return"
    /\ f = "failed"
    /\ stop_calls = 1
    /\ stopped # {}

\* The permits the read_context of the running page still holds on shard s.
HeldByContext(s) ==
    PermitsOfMeta(_readers[s])
    \cup (IF Has(saving_rm[s]) THEN PermitsOfMeta(Val(saving_rm[s])) ELSE {})
    \cup PermitsOfShardReader(shard_readers[s])

\* C3 as stated: after stop() returns, the in-flight count of every shard's
\* semaphore equals its value before the query started.
C3_InFlightAsBefore ==
    pc = "return" =>
        \A s \in Shards : Cardinality(InFlight(s)) = Cardinality(snap.inflight[s])

\* C3, amended: after stop() returns, the read_context holds no permit on any
\* shard; every permit acquired for the query has been released or belongs to
\* the querier saved in the shard's querier cache, and the set of permits in
\* flight is the one before the query on every shard whose cache entry is the
\* one it had before the query.
C3_PermitsReleasedOrSaved ==
    pc = "return" =>
        \A s \in Shards :
            /\ HeldByContext(s) = {}
            /\ InFlight(s) = PermitsOfQuerier(querier_cache[s])
            /\ querier_cache[s] # snap.cache[s] /\ Has(querier_cache[s])
                  => saved[s] = "inserted"
            /\ querier_cache[s] = snap.cache[s] => InFlight(s) = snap.inflight[s]

\* stop() has returned after it released the remote parts of one shard, while
\* the reader of another shard was saved with its permit.
C3_Witness ==
    /\ pc = "return"
    /\ stopped # {}
    /\ \E s \in Shards : saved[s] = "inserted" /\ InFlight(s) # snap.inflight[s]

ZeroLimit == cmd.row_limit = 0 \/ cmd.partition_row_limit = 0 \/ cmd.partition_limit = 0

\* C4: if the row limit, the per-partition row limit or the partition limit of
\* the command is zero, the query returns the empty result and touches nothing:
\* no read_context state, no querier cache entry, no permit, no shard reader
\* and no counter changes.
C4_ZeroLimitTouchesNothing ==
    [][(pc = "entry" /\ ZeroLimit) =>
          /\ pc' = "idle"
          /\ ret' = Returned("empty", <<>>, FALSE, FALSE)
          /\ UNCHANGED <<ctxVars, readVars, saveVars, stopVars, querier_cache, stats,
                         delivered>>
          /\ \A s \in Shards : InFlight(s)' = InFlight(s)]_vars

\* The empty result was returned for the second page of a query whose querier
\* of the first page is still in the cache, and only the partition limit of the
\* command is zero.
C4_Witness ==
    /\ pc = "idle"
    /\ ret.kind = "empty"
    /\ cmd.partition_limit = 0 /\ cmd.row_limit = 1 /\ cmd.partition_row_limit = 1
    /\ \E s \in Shards : Has(querier_cache[s])

\* C8: for a stateless query lookup_readers and save_readers do nothing: the
\* querier cache is neither looked up nor inserted into and no shard state
\* changes by them; on the first page of a stateful query lookup_readers does
\* nothing either, and every shard stays inexistent until its create_reader.
C8_StatelessAndFirstPageNoOps ==
    /\ (pc \notin {"idle", "entry"} /\ cmd.query_uuid = 0) =>
          /\ querier_cache = snap.cache
          /\ looked = {}
          /\ dismantled = 0
          /\ trace = trace0
          /\ \A s \in Shards :
                /\ saved[s] = "no"
                /\ ~Has(saving_rm[s])
                /\ ~Has(_readers[s].dismantled_buffer)
                /\ _readers[s].state # "successful_lookup"
                /\ (s \in closed /\ Has(_readers[s].rparts))
                      => _readers[s].state \in {"used", "saving"}
    /\ (pc \in {"lookup", "read"} /\ (cmd.query_uuid = 0 \/ cmd.is_first_page)) =>
          /\ querier_cache = snap.cache
          /\ looked = {}
          /\ \A s \in Shards \ created : _readers[s] = reader_meta_default

\* A stateless query that is not on its first page ended a page on a short
\* read: save_readers was skipped and stop() finds the reader of a shard still
\* in saving.
C8_Witness ==
    /\ pc = "stop"
    /\ cmd.query_uuid = 0
    /\ ~cmd.is_first_page
    /\ endkind = "short"
    /\ f = "ok"
    /\ \E s \in Shards : _readers[s].state = "saving"

C10_CacheUnchangedOnFailure ==
    (pc = "return" /\ f = "failed") => querier_cache = snap.cache

\* C10, amended: when a page fails, no querier is inserted into the cache of
\* any shard and no partial result is returned; the cache of a shard holds what
\* it held before the query, or nothing if lookup_readers took its entry out
\* (the reader of that entry is closed by stop()); on a first page and for a
\* stateless query the cache is unchanged.
C10_FailedPageInsertsNothing ==
    /\ (pc = "return" /\ f = "failed") =>
          /\ \A s \in Shards :
                /\ saved[s] = "no"
                /\ \/ querier_cache[s] = snap.cache[s]
                   \/ ~Has(querier_cache[s]) /\ s \in looked
          /\ (cmd.query_uuid = 0 \/ cmd.is_first_page) => querier_cache = snap.cache
    /\ (pc = "idle" /\ ret.kind = "error") =>
          /\ ret.frags = <<>>
          /\ ~ret.short
          /\ ~ret.more

\* The second page of a query fails after it delivered rows, and the querier
\* the first page had saved on a shard is no longer in the cache.
C10_Witness ==
    /\ pc = "return"
    /\ f = "failed"
    /\ \E i \in 1 .. Len(page) : page[i].k = "row"
    /\ \E s \in Shards : Has(snap.cache[s]) /\ ~Has(querier_cache[s])

\* What save_readers is handed: the unconsumed buffer of the page and the
\* fragments of the detached compaction state.
Handed == combined \o CompactionFrags(cstate)

DismantledBuffer(s) ==
    IF Has(_readers[s].dismantled_buffer) THEN Val(_readers[s].dismantled_buffer) ELSE <<>>

Occurrences(x, s) ==
    Cardinality({i \in 1 .. Len(DismantledBuffer(s)) : DismantledBuffer(s)[i] = x})

\* The fragment is once in the dismantled buffer of its own shard, whose reader
\* save_reader will find and save, and in no other buffer.
KeptForSave(x) ==
    /\ Occurrences(x, shard_of(x.p)) = 1
    /\ \A s \in Shards \ {shard_of(x.p)} : Occurrences(x, s) = 0
    /\ save_wanted(_readers[shard_of(x.p)])
    /\ can_evict(_readers[shard_of(x.p)])

NowhereKept(x) == \A s \in Shards : Occurrences(x, s) = 0

\* C5: when the combined buffer and the compaction state have been dismantled,
\* every fragment handed to save_readers is either once in the buffer that is
\* pushed back into the reader saved for the shard it came from, or it is in no
\* buffer and counted in the discarded statistics; the buffers hold nothing
\* else.
C5_FragmentConservation ==
    (pc = "save" /\ dismantled = 2) =>
        /\ \A i \in 1 .. Len(Handed) : KeptForSave(Handed[i]) \/ NowhereKept(Handed[i])
        /\ trace.cb.discarded_fragments + trace.cs.discarded_fragments
              = Cardinality({i \in 1 .. Len(Handed) : NowhereKept(Handed[i])})
        /\ trace.cb.fragments + trace.cs.fragments
              = Cardinality({i \in 1 .. Len(Handed) : KeptForSave(Handed[i])})
        /\ \A s \in Shards : \A j \in 1 .. Len(DismantledBuffer(s)) :
              \E i \in 1 .. Len(Handed) : Handed[i] = DismantledBuffer(s)[j]

IsRow(mf) == mf.k = "row"

DeliveredRows == SelectSeq(delivered, IsRow)

SaveReadersAgain ==
    /\ pc = "save"
    /\ dismantled = 3
    /\ \A s \in Shards : ~Has(saving_rm[s])
    /\ LET r1 == dismantle_combined_buffer(_readers, combined, cstate.partition_start)
           r2 == dismantle_compaction_state(r1.readers, cstate)
           wanted == {s \in Shards : save_wanted(r2.readers[s])}
           res(s) == save_reader_on_shard(r2.readers[s], cstate.partition_start,
                                          cstate.last_ckey)
           inserts == {s \in wanted : Has(res(s).querier)}
       IN /\ _readers' = [s \in Shards |->
                             IF s \in wanted THEN take_reader_meta(r2.readers[s])
                             ELSE r2.readers[s]]
          /\ querier_cache' = [s \in Shards |->
                                  IF s \in inserts
                                  THEN cache_insert(s, querier_cache[s], Val(res(s).querier))
                                  ELSE querier_cache[s]]
          /\ stats' = [stats EXCEPT
                         !.multishard_query_unpopped_fragments = @ + SeqSum(
                             [i \in 1 .. NShards |->
                                 IF (i - 1) \in inserts THEN res(i - 1).fragments ELSE 0]),
                         !.multishard_query_unpopped_bytes = @ + SeqSum(
                             [i \in 1 .. NShards |->
                                 IF (i - 1) \in inserts THEN res(i - 1).bytes ELSE 0])]
          /\ trace' = [cb |-> r1.stats, cs |-> r2.stats]
    /\ dismantled' = 4
    /\ UNCHANGED <<cmd, pc, pageno, looked, f, readVars, saving_rm, saved, stopVars,
                   ret, delivered, snap>>
    /\ UNCHANGED unitVars

\* The second invocation of save_readers has returned: the chain succeeded.
SaveDoneAgain ==
    /\ pc = "save"
    /\ dismantled = 4
    /\ ChainDone("ok")
    /\ UNCHANGED <<cmd, pageno, _readers, looked, readVars, saveVars, stopped,
                   querier_cache, stats, ret, delivered, snap>>
    /\ UNCHANGED unitVars

NextSaveTwice ==
    \/ Next
    \/ SaveReadersAgain
    \/ SaveDoneAgain

SpecSaveTwice == Init /\ [][NextSaveTwice]_vars

\* C7: a second invocation of save_readers on the same read context finds no
\* shard to save and leaves the querier cache as the first invocation left it:
\* it inserts no querier for any shard.
C7_SecondSaveInsertsNothing ==
    [][(pc = "save" /\ dismantled = 3 /\ dismantled' = 4) =>
          /\ querier_cache' = querier_cache
          /\ \A s \in Shards : ~save_wanted(_readers[s]) /\ ~save_wanted(_readers'[s])]_vars

\* save_readers has returned for the second time on a context whose first
\* invocation had a buffer to dismantle and inserted the querier of a shard.
C7_Witness ==
    /\ pc = "save"
    /\ dismantled = 4
    /\ combined # <<>>
    /\ \E s \in Shards : saved[s] = "inserted" /\ Has(querier_cache[s])

\* --------------------------------------------------------------------- C11
EosPageStopped == pc = "return" /\ endkind = "eos" /\ f = "ok"

\* C11 as stated: after a page that ended with end-of-stream and after stop()
\* has returned, the reader state of every shard is inexistent.
C11_AllInexistentAfterEos ==
    EosPageStopped => \A s \in Shards : _readers[s].state = "inexistent"

\* C11, amended: after a page that ended with end-of-stream and after stop()
\* has returned, no shard holds remote parts, but the states are not reset: a
\* shard the page created a reader on is in saving (in used if stopping its
\* reader failed before destroy_reader), a shard the page never read is in the
\* state lookup_readers left it in.
C11_StatesKeptAfterStop ==
    EosPageStopped =>
        \A s \in Shards :
            /\ ~Has(_readers[s].rparts)
            /\ IF s \in created
               THEN _readers[s].state \in {"saving", "used"}
               ELSE _readers[s].state \in {"inexistent", "successful_lookup"}

C11_Witness ==
    /\ EosPageStopped
    /\ stop_calls = 1
    /\ \E s \in Shards : _readers[s].state = "saving" /\ ~Has(_readers[s].rparts)

\* --------------------------------------------------------------------- C12
\* The cache lookup of lookup_readers has run on shard s in this step.
LookedUp(s) == s \in looked' /\ s \notin looked /\ ~Has(querier_cache'[s])

\* What lookup_readers holds for a shard when it observed the querier q.
Observes(rm, q) ==
    /\ rm.state = "successful_lookup"
    /\ Has(rm.rparts)
    /\ Val(rm.rparts).permit = q.permit
    /\ Val(rm.rparts).range = q.range
    /\ Val(rm.rparts).slice = q.slice
    /\ Val(rm.rparts).handle = Some([reader |-> Some(q.reader)])

\* C12: a querier enters a shard's cache only in save_readers, after the
\* combined buffer and then the compaction state were dismantled; the entry
\* then only ever disappears, so that a later lookup_readers of the query on
\* the shard observes exactly the querier that insert saved, or nothing if it
\* was evicted in between.
C12_SaveOrderAndLookup ==
    [][\A s \in Shards :
          /\ (querier_cache'[s] # querier_cache[s] /\ Has(querier_cache'[s]))
                => (pc = "save" /\ dismantled = 3 /\ saved'[s] = "inserted")
          /\ (dismantled' # dismantled /\ dismantled' # 0)
                => (dismantled' = dismantled + 1
                    /\ \A u \in Shards : saved[u] = "no" /\ querier_cache'[u] = querier_cache[u])
          /\ LookedUp(s)
                => IF Has(querier_cache[s])
                   THEN Observes(_readers'[s], Val(querier_cache[s]))
                   ELSE _readers'[s].state = "inexistent" /\ ~Has(_readers'[s].rparts)
      ]_vars

C12_Witness ==
    /\ pc = "lookup"
    /\ pageno = 1
    /\ \E s \in looked : _readers[s].state = "successful_lookup"
    /\ \E s \in looked : _readers[s].state = "inexistent" /\ Has(snap.cache[s]) = FALSE

\* --------------------------------------------------------------------- C13
\* save_readers has not been entered on this page.
SaveNotCalled ==
    /\ dismantled = 0
    /\ trace = trace0
    /\ \A s \in Shards : saved[s] = "no" /\ ~Has(saving_rm[s])

\* C13: a querier is inserted into a querier cache only when the query is
\* stateful and the page ended on a limit or as a short read; when the page
\* ends with end-of-stream, save_readers is not called and stop() closes every
\* shard reader: it visits every shard a reader was created or looked up on
\* and leaves no reader, handle or remote parts behind.
C13_SaveOnlyWhenPagingContinues ==
    /\ \A s \in Shards :
          saved[s] = "inserted" => (cmd.query_uuid # 0 /\ endkind \in {"limit", "short"})
    /\ (endkind = "eos" /\ pc \in {"closing", "stop", "return"}) => SaveNotCalled
    /\ (endkind = "eos" /\ pc = "return") =>
          \A s \in Shards :
              /\ ~Has(_readers[s].rparts)
              /\ ~Has(shard_readers[s])
              /\ (s \in created \/ _readers[s].state = "successful_lookup") => s \in stopped

C13_Witness ==
    /\ pc = "return"
    /\ endkind = "eos"
    /\ f = "ok"
    /\ cmd.query_uuid # 0
    /\ stopped = Shards
    /\ SaveNotCalled

\* ============================================ multi_range_reader::fill_buffer
\* fill_buffer() is called: it returns at once at the end of the stream.
MrrFillBuffer ==
    /\ mrr.pc = "idle"
    /\ mrr' = [mrr EXCEPT !.added = <<>>, !.fetched = <<>>,
                          !.pc = IF mrr._end_of_stream THEN "idle" ELSE "test"]
    /\ UNCHANGED <<queryVars, fwd, pol, dis, lk, lb>>

\* A loop that forwards the reader as soon as its buffer is empty.
MrrLoopEager ==
    /\ mrr.pc = "test"
    /\ mrr' =
         IF ~fill_goes_on(mrr) THEN [mrr EXCEPT !.pc = "idle"]
         ELSE IF mrr._reader.buffer = <<>> /\ mrr._reader.pos > 0
         THEN IF mrr._it + 1 > Len(mrr.ranges)
              THEN [mrr EXCEPT !._it = @ + 1, !._end_of_stream = TRUE, !.pc = "idle"]
              ELSE [mrr EXCEPT !._it = @ + 1, !._reader = fast_forward_to(@),
                               !.pc = "fill"]
         ELSE [mrr EXCEPT !.pc = "fill"]
    /\ UNCHANGED <<queryVars, fwd, pol, dis, lk, lb>>

\* The head of the loop: it is left with a buffer that is not empty or at the
\* end of the last range; a reader that is through with its range is forwarded
\* to the next range.
MrrLoop ==
    /\ mrr.pc = "test"
    /\ mrr' =
         IF ~fill_goes_on(mrr) THEN [mrr EXCEPT !.pc = "idle"]
         ELSE IF mrr._reader.buffer = <<>> /\ mrr._reader._end_of_stream
         THEN IF mrr._it + 1 > Len(mrr.ranges)
              THEN [mrr EXCEPT !._it = @ + 1, !._end_of_stream = TRUE, !.pc = "idle"]
              ELSE [mrr EXCEPT !._it = @ + 1, !._reader = fast_forward_to(@),
                               !.pc = "fill"]
         ELSE [mrr EXCEPT !.pc = "fill"]
    /\ UNCHANGED <<queryVars, fwd, pol, dis, lk, lb>>

\* if (_reader.is_buffer_empty()) co_await _reader.fill_buffer(): the
\* underlying reader fetches some more of its range, and is at the end of its
\* stream at the latest when asked again with the range exhausted.
MrrUnderlyingFill ==
    /\ mrr.pc = "fill"
    /\ LET rd == mrr._reader
           len == mrr.ranges[mrr._it]
       IN IF rd.buffer # <<>>
          THEN mrr' = [mrr EXCEPT !.pc = "move"]
          ELSE \E n \in 0 .. MaxBuf, eos \in BOOLEAN :
                  /\ rd.pos + n <= len
                  /\ eos => rd.pos + n = len
                  /\ (n = 0 /\ rd.pos = len) => eos
                  /\ LET got == [i \in 1 .. n |-> RangeFrag(mrr._it, rd.pos + i)]
                     IN mrr' = [mrr EXCEPT
                                   !._reader = [buffer |-> got, pos |-> rd.pos + n,
                                                _end_of_stream |-> eos],
                                   !.fetched = @ \o got,
                                   !.pc = "move"]
    /\ UNCHANGED <<queryVars, fwd, pol, dis, lk, lb>>

\* The underlying fill_buffer fails (its deadline expired): the exception
\* leaves fill_buffer and the reader is only closed after that.
MrrUnderlyingFillFails ==
    /\ mrr.pc = "fill"
    /\ mrr._reader.buffer = <<>>
    /\ mrr' = [mrr EXCEPT !.pc = "failed"]
    /\ UNCHANGED <<queryVars, fwd, pol, dis, lk, lb>>

\* _reader.move_buffer_content_to(*this), and back to the head of the loop.
MrrMove ==
    /\ mrr.pc = "move"
    /\ LET r == move_buffer_content_to(mrr._reader, mrr.buffer)
       IN mrr' = [mrr EXCEPT
                     !._reader = r.rd,
                     !.buffer = r.buf,
                     !.added = @ \o SubSeq(r.buf, Len(mrr.buffer) + 1, Len(r.buf)),
                     !.pc = "test"]
    /\ UNCHANGED <<queryVars, fwd, pol, dis, lk, lb>>

\* The consumer pops the first fragment of the buffer.
MrrPop ==
    /\ mrr.pc = "idle"
    /\ mrr.buffer # <<>>
    /\ mrr' = [mrr EXCEPT !.buffer = Tail(@)]
    /\ UNCHANGED <<queryVars, fwd, pol, dis, lk, lb>>

\* read_page: reader.detach_buffer()
MrrDetachBuffer ==
    /\ mrr.pc = "idle"
    /\ mrr.buffer # <<>>
    /\ mrr' = [mrr EXCEPT !.buffer = <<>>]
    /\ UNCHANGED <<queryVars, fwd, pol, dis, lk, lb>>

InitMrr ==
    /\ QueryIdle
    /\ fwd = fwd0
    /\ pol = pol0
    /\ dis = dis0
    /\ lk = lk0
    /\ lb = lb0
    /\ \E ranges \in RangeVectors : mrr = multi_range_reader(underlying_reader, ranges)

NextMrr ==
    \/ MrrFillBuffer
    \/ MrrLoop
    \/ MrrUnderlyingFill
    \/ MrrUnderlyingFillFails
    \/ MrrMove
    \/ MrrPop
    \/ MrrDetachBuffer

SpecMrr == InitMrr /\ [][NextMrr]_vars

\* --------------------------------------------------------------------- C14
OneRange(frags) == \A i, j \in DOMAIN frags : frags[i].range = frags[j].range

\* C14: the fragments one fill_buffer call adds to the wrapper's buffer all
\* come from one partition range, and the buffer never holds fragments of two
\* different ranges of the range vector.
C14_FillStaysInOneRange == OneRange(mrr.added) /\ OneRange(mrr.buffer)

C14_Witness ==
    /\ mrr.pc = "idle"
    /\ mrr.ranges[1] = 1
    /\ mrr.ranges[2] = 0
    /\ mrr.added = <<RangeFrag(3, 1), RangeFrag(3, 2)>>

\* --------------------------------------------------------------------- C15
IsSuffix(a, b) == Len(a) <= Len(b) /\ SubSeq(b, Len(b) - Len(a) + 1, Len(b)) = a

\* C15: whenever fill_buffer returns, and each time it comes back to the head
\* of its loop, the underlying reader's buffer is empty: every fragment the
\* underlying reader fetched during the call is in the wrapper's buffer, where
\* detach_buffer() finds it.
C15_UnderlyingDrained ==
    /\ mrr.pc \in {"idle", "test"} =>
          (mrr._reader.buffer = <<>> /\ mrr.fetched = mrr.added)
    /\ mrr.pc = "test" => IsSuffix(mrr.added, mrr.buffer)

C15_Witness ==
    /\ mrr.pc = "idle"
    /\ Len(mrr.fetched) = MaxBuf
    /\ mrr.buffer = mrr.fetched
    /\ mrr._reader.buffer = <<>>

\* ================================================= forward_service::dispatch
\* request_to_dispatch::send up to its co_await: dispatch_to_node executes the
\* request on the local shards if the destination is this node, else counts it
\* and sends the rpc.
FwdSend(id) ==
    /\ fwd.pc = "sending"
    /\ id \in DOMAIN fwd.requests
    /\ fwd.requests[id].st = "new"
    /\ fwd' = IF is_me(id)
              THEN [fwd EXCEPT !.requests[id].st = "local"]
              ELSE [fwd EXCEPT !.requests[id].st = "rpc",
                               !.requests_dispatched_to_other_nodes = @ + 1]
    /\ UNCHANGED <<queryVars, mrr, pol, dis, lk, lb>>

\* The rpc to another node answers with the partial result: send() resumes.
FwdRpcDone(id) ==
    /\ fwd.pc = "sending"
    /\ id \in DOMAIN fwd.requests
    /\ fwd.requests[id].st = "rpc"
    /\ \E intact \in BOOLEAN : fwd' = send_resumes(fwd, id, partial_result_of(id), intact)
    /\ UNCHANGED <<queryVars, mrr, pol, dis, lk, lb>>

\* The rpc fails with rpc::closed_error: the request is executed on the local
\* shards if the retry is still available, else the error is passed on.
FwdRpcClosed(id) ==
    /\ fwd.pc = "sending"
    /\ id \in DOMAIN fwd.requests
    /\ fwd.requests[id].st = "rpc"
    /\ fwd' = IF ~fwd._retry_available
              THEN [fwd EXCEPT !.requests[id].st = "failed",
                               !.closed_log = Append(@, [id |-> id, did |-> "rethrow"])]
              ELSE [fwd EXCEPT !._retry_available = retry_taken(@),
                               !.requests[id].st = "local",
                               !.closed_log = Append(@, [id |-> id, did |-> "retry"])]
    /\ UNCHANGED <<queryVars, mrr, pol, dis, lk, lb>>

\* The rpc fails with another exception: no handler, send() fails.
FwdRpcFails(id) ==
    /\ fwd.pc = "sending"
    /\ id \in DOMAIN fwd.requests
    /\ fwd.requests[id].st = "rpc"
    /\ fwd' = [fwd EXCEPT !.requests[id].st = "failed"]
    /\ UNCHANGED <<queryVars, mrr, pol, dis, lk, lb>>

\* dispatch_to_shards gives the partial result: send() resumes.
FwdLocalDone(id) ==
    /\ fwd.pc = "sending"
    /\ id \in DOMAIN fwd.requests
    /\ fwd.requests[id].st = "local"
    /\ \E intact \in BOOLEAN : fwd' = send_resumes(fwd, id, partial_result_of(id), intact)
    /\ UNCHANGED <<queryVars, mrr, pol, dis, lk, lb>>

\* dispatch_to_shards fails: send() fails.
FwdLocalFails(id) ==
    /\ fwd.pc = "sending"
    /\ id \in DOMAIN fwd.requests
    /\ fwd.requests[id].st = "local"
    /\ fwd' = [fwd EXCEPT !.requests[id].st = "failed"]
    /\ UNCHANGED <<queryVars, mrr, pol, dis, lk, lb>>

\* parallel_for_each has resolved: dispatch returns the shared result or fails.
FwdReturn ==
    /\ fwd.pc = "sending"
    /\ \A id \in DOMAIN fwd.requests : fwd.requests[id].st \in {"done", "failed"}
    /\ fwd' = [fwd EXCEPT !.pc = "returned", !.out = Some(dispatch_returns(fwd))]
    /\ UNCHANGED <<queryVars, mrr, pol, dis, lk, lb>>

InitFwd ==
    /\ QueryIdle
    /\ mrr = mrr0
    /\ pol = pol0
    /\ dis = dis0
    /\ lk = lk0
    /\ lb = lb0
    /\ \E dests \in (SUBSET Endpoints) \ {{}} : fwd = forward_dispatch(dests)

NextFwd ==
    \/ \E id \in Endpoints : FwdSend(id)
    \/ \E id \in Endpoints : FwdRpcDone(id)
    \/ \E id \in Endpoints : FwdRpcClosed(id)
    \/ \E id \in Endpoints : FwdRpcFails(id)
    \/ \E id \in Endpoints : FwdLocalDone(id)
    \/ \E id \in Endpoints : FwdLocalFails(id)
    \/ FwdReturn

SpecFwd == InitFwd /\ [][NextFwd]_vars

\* --------------------------------------------------------------------- C16
AllSent == \A id \in DOMAIN fwd.requests : fwd.requests[id].st = "done"

\* C16: once every send() of a dispatch has completed, the shared result
\* holds a value that combines the partial result of each dispatched request
\* exactly once, and that value is what dispatch returns.
C16_MergedExactlyOnce ==
    /\ (fwd.pc # "crashed" /\ AllSent) =>
          fwd.result = Some([e \in Endpoints |->
                               IF e \in DOMAIN fwd.requests THEN 1 ELSE 0])
    /\ (fwd.pc = "returned" /\ AllSent) =>
          (Val(fwd.out).kind = "result" /\ Val(fwd.out).value = fwd.result)

\* --------------------------------------------------------------------- C17
\* C17: a retrying_dispatcher retries at most once: the first rpc::closed_error
\* of any request sharing it is answered by executing the request on the local
\* shards, every later one is passed on without a retry; the retry is
\* available exactly until then.
C17_AtMostOneRetry ==
    /\ fwd._retry_available = (fwd.closed_log = <<>>)
    /\ \A i \in DOMAIN fwd.closed_log :
          /\ fwd.closed_log[i].did = (IF i = 1 THEN "retry" ELSE "rethrow")
          /\ ~is_me(fwd.closed_log[i].id)
          /\ fwd.closed_log[i].did = "rethrow"
                => fwd.requests[fwd.closed_log[i].id].st = "failed"
          /\ fwd.closed_log[i].did = "retry"
                => fwd.requests[fwd.closed_log[i].id].st \in {"local", "done", "failed"}
                   \/ fwd.pc = "crashed"

C17_Witness ==
    /\ Len(fwd.closed_log) = 3
    /\ fwd.closed_log[1].did = "retry"
    /\ fwd.closed_log[3].did = "rethrow"
    /\ fwd.pc = "returned"

\* --------------------------------------------------------------------- C18
\* lookup_readers runs for a page that is not the first of a stateful query,
\* and no cache lookup has failed.
LookingUp ==
    /\ pc = "lookup"
    /\ cmd.query_uuid # 0
    /\ ~cmd.is_first_page
    /\ f # "failed"

\* C18: on a page that is not the first of a stateful query, lookup_readers
\* moves a shard from inexistent to successful_lookup if and only if the
\* querier cache of the shard gives a querier for the query id; on a miss,
\* that of an evicted entry included, the shard stays inexistent and has no
\* remote parts. A shard not looked up yet is inexistent.
C18_LookupMarksHitsOnly ==
    LookingUp =>
        \A s \in Shards :
            IF s \in looked
            THEN /\ (_readers[s].state = "successful_lookup") = Has(snap.cache[s])
                 /\ Has(_readers[s].rparts) = Has(snap.cache[s])
                 /\ ~Has(snap.cache[s]) => _readers[s].state = "inexistent"
            ELSE _readers[s] = reader_meta_default

C18_Witness ==
    /\ LookingUp
    /\ looked = Shards
    /\ \E s \in Shards : Has(snap.cache[s]) /\ _readers[s].state = "successful_lookup"
    /\ \E s \in Shards : ~Has(snap.cache[s]) /\ _readers[s].state = "inexistent"

\* --------------------------------------------------------------------- C19
\* create_reader has returned a reader on shard s in this step.
ReaderReturned(s) ==
    /\ pc = "read"
    /\ shard_readers'[s] # shard_readers[s]
    /\ Has(shard_readers'[s])
    /\ Val(shard_readers'[s]).live
    /\ IF Has(shard_readers[s]) THEN ~Val(shard_readers[s]).live ELSE TRUE

\* The remote parts are those of the reader with the given permit: they hold
\* its permit, its range and slice and the read-in-progress ticket, and no
\* inactive read handle that still owns a reader.
PartsOfReaderInUse(rm, permit) ==
    /\ Has(rm.rparts)
    /\ Val(rm.rparts).permit = permit
    /\ Val(rm.rparts).range = 1
    /\ Val(rm.rparts).slice = 1
    /\ Val(rm.rparts).read_operation
    /\ Val(rm.rparts).handle \in {None, Some(moved_from_handle)}

\* C19: create_reader called on a shard in inexistent or successful_lookup
\* leaves the shard in used when it returns a reader, with remote parts that
\* hold the permit, range, slice and read-in-progress ticket of the reader now
\* in use.
C19_CreateReaderMarksUsed ==
    [][\A s \in Shards :
          (_readers[s].state \in {"inexistent", "successful_lookup"} /\ ReaderReturned(s))
             => /\ _readers'[s].state = "used"
                /\ PartsOfReaderInUse(_readers'[s], Val(shard_readers'[s]).permit)
      ]_vars

C19_Witness ==
    /\ pc = "read"
    /\ pageno = 1
    /\ \E s \in Shards :
          /\ _readers[s].state = "used"
          /\ Has(shard_readers[s])
          /\ Val(shard_readers[s]).live
          /\ Val(_readers[s].rparts).handle = Some(moved_from_handle)
          /\ Val(_readers[s].rparts).permit = Val(shard_readers[s]).permit
    /\ \E s \in Shards :
          /\ _readers[s].state = "used"
          /\ Val(_readers[s].rparts).handle = None

\* --------------------------------------------------------------------- C20
\* create_reader has run in this step on shard s, which was in
\* successful_lookup.
CreatedAfterLookup(s) ==
    /\ pc = "read"
    /\ _readers[s].state = "successful_lookup"
    /\ _readers'[s].state # "successful_lookup"

\* The reader behind the inactive read handle of the remote parts, if the
\* semaphore has not evicted it.
SavedReader(rm) == Val(Val(rm.rparts).handle).reader

\* C20: create_reader on a shard in successful_lookup returns the saved reader
\* if unregistering its inactive read handle gives it back; if the saved
\* reader was evicted it makes a fresh reader instead; either way the shard
\* ends in used and no error is raised to the query.
C20_EvictedSavedReaderIsAMiss ==
    [][\A s \in Shards :
          CreatedAfterLookup(s)
             => /\ _readers'[s].state = "used"
                /\ f' = f
                /\ pc' = "read"
                /\ Has(shard_readers'[s])
                /\ Val(shard_readers'[s]).live
                /\ IF Has(SavedReader(_readers[s]))
                   THEN /\ Val(shard_readers'[s]).permit = Val(SavedReader(_readers[s])).permit
                        /\ Val(shard_readers'[s]).buf = Val(SavedReader(_readers[s])).buf
                        /\ Val(shard_readers'[s]).nxt = Val(SavedReader(_readers[s])).nxt
                        /\ Val(_readers'[s].rparts).handle = Some(moved_from_handle)
                   ELSE /\ Val(shard_readers'[s]).buf = make_reader(s).buf
                        /\ Val(shard_readers'[s]).nxt = make_reader(s).nxt
                        /\ Val(shard_readers'[s]).permit = Val(_readers'[s].rparts).permit
                        /\ Val(_readers'[s].rparts).handle = None
      ]_vars

C20_Witness ==
    /\ pc = "read"
    /\ f # "failed"
    /\ \E s \in Shards :
          /\ Has(snap.cache[s])
          /\ _readers[s].state = "used"
          /\ Val(_readers[s].rparts).handle = None
          /\ Val(_readers[s].rparts).permit = Val(snap.cache[s]).permit
          /\ Has(shard_readers[s])
          /\ Val(shard_readers[s]).live

\* --------------------------------------------------------------------- C21
\* destroy_reader has acted on shard s, which was in used, in this step.
DestroyedUsed(s) ==
    /\ pc = "closing"
    /\ _readers[s].state = "used"
    /\ _readers'[s] # _readers[s]

\* The inactive read handle of the stopped shard reader sr: it owns the reader
\* unless the semaphore had evicted it.
StoppedHandle(sr) ==
    IF sr.live THEN [reader |-> Some([permit |-> sr.permit, buf |-> <<>>, nxt |-> sr.nxt])]
    ELSE [reader |-> None]

\* C21: destroy_reader called on a shard in used moves it to saving and
\* records the inactive read handle and the unconsumed fragments of the
\* stopped reader in the remote parts of the shard, which are otherwise as
\* before.
C21_DestroyReaderRecords ==
    [][\A s \in Shards :
          DestroyedUsed(s)
             => /\ _readers'[s].state = "saving"
                /\ Has(_readers'[s].rparts)
                /\ Val(_readers'[s].rparts).handle = Some(StoppedHandle(Val(shard_readers[s])))
                /\ Val(_readers'[s].rparts).buffer = Some(Val(shard_readers[s]).buf)
                /\ Val(_readers'[s].rparts).permit = Val(_readers[s].rparts).permit
                /\ Val(_readers'[s].rparts).range = Val(_readers[s].rparts).range
                /\ Val(_readers'[s].rparts).slice = Val(_readers[s].rparts).slice
                /\ _readers'[s].dismantled_buffer = _readers[s].dismantled_buffer
      ]_vars

C21_Witness ==
    /\ pc = "closing"
    /\ \E s \in closed :
          /\ _readers[s].state = "saving"
          /\ Has(Val(_readers[s].rparts).buffer)
          /\ Val(Val(_readers[s].rparts).buffer) # <<>>
          /\ Has(Val(Val(_readers[s].rparts).handle).reader)

\* ==================================== the lifecycle policy called in any order
\* The multishard combining reader is the caller of create_reader and
\* destroy_reader; here the functions of a read_context are called on a shard
\* in any order, the orders a correct reader never produces included.
\* The call op was made on the context of query q and left rm behind; a call
\* that throws fails the page of the query.
PolCall(q, op, rm, thrown) ==
    LET post == [rm |-> rm,
                 f |-> IF thrown THEN "failed" ELSE pol.ctx[q].f,
                 stopped |-> pol.ctx[q].stopped \/ op = "stop"]
    IN pol' = [ctx |-> [pol.ctx EXCEPT ![q] = post],
               last |-> [q |-> q, op |-> op, pre |-> pol.ctx[q], post |-> post,
                         thrown |-> thrown],
               n |-> pol.n + 1]

\* Calls are made on a context until stop() has run on it.
PolOpen(q) == pol.n < MaxCalls /\ ~pol.ctx[q].stopped

\* The permit create_reader is given: that of the looked-up reader, else one
\* no earlier call was given.
PolPermit(rm) == IF rm.state = "successful_lookup" THEN Val(rm.rparts).permit ELSE pol.n + 2

\* lookup_readers, first thing on a context: the cache has a querier or not.
PolLookup(q) ==
    /\ PolOpen(q)
    /\ pol.ctx[q] = read_context
    /\ \E hit \in BOOLEAN :
          PolCall(q, "lookup_readers",
                  lookup_on_shard(IF hit
                                  THEN Some(shard_mutation_querier(1, 1, Reader(1, <<>>, 1),
                                                                   1, 0, 0))
                                  ELSE None),
                  FALSE)
    /\ UNCHANGED <<queryVars, mrr, fwd, dis, lk, lb>>

\* The semaphore evicts the inactive read behind the handle of the context.
PolEvict(q) ==
    /\ PolOpen(q)
    /\ can_evict(pol.ctx[q].rm)
    /\ pol' = [pol EXCEPT !.ctx[q].rm = evict(@)]
    /\ UNCHANGED <<queryVars, mrr, fwd, dis, lk, lb>>

\* create_reader is called, whatever the state of the shard.
PolCreateReader(q) ==
    /\ PolOpen(q)
    /\ pol.ctx[q].f # "failed"
    /\ LET rm == pol.ctx[q].rm
           res == create_reader(rm, PolPermit(rm), [buf |-> <<>>, nxt |-> 1])
       IN PolCall(q, "create_reader", res.rm, res.thrown)
    /\ UNCHANGED <<queryVars, mrr, fwd, dis, lk, lb>>

\* destroy_reader is called, whatever the state of the shard, with a stopped
\* reader that is still registered or was evicted, and some unconsumed
\* fragments.
PolDestroyReader(q) ==
    /\ PolOpen(q)
    /\ \E live \in BOOLEAN, unconsumed \in {<<>>, <<Frag("row", 1, 1)>>} :
          LET rm == pol.ctx[q].rm
              stopped_reader ==
                  [handle |-> IF live
                              THEN register_inactive_read(
                                       Reader(IF Has(rm.rparts) THEN Val(rm.rparts).permit
                                              ELSE pol.n + 2, <<>>, 1))
                              ELSE moved_from_handle,
                   unconsumed_fragments |-> unconsumed]
          IN PolCall(q, "destroy_reader", destroy_reader(rm, stopped_reader), FALSE)
    /\ UNCHANGED <<queryVars, mrr, fwd, dis, lk, lb>>

\* save_readers hands a shard in successful_lookup or saving to save_reader.
PolSaveReader(q) ==
    /\ PolOpen(q)
    /\ pol.ctx[q].f # "failed"
    /\ save_wanted(pol.ctx[q].rm)
    /\ PolCall(q, "save_reader", take_reader_meta(pol.ctx[q].rm), FALSE)
    /\ UNCHANGED <<queryVars, mrr, fwd, dis, lk, lb>>

\* stop() releases the remote parts of a shard that has some.
PolStop(q) ==
    /\ PolOpen(q)
    /\ PolCall(q, "stop",
               IF stop_visits(pol.ctx[q].rm) THEN stop_on_shard(pol.ctx[q].rm)
               ELSE pol.ctx[q].rm,
               FALSE)
    /\ UNCHANGED <<queryVars, mrr, fwd, dis, lk, lb>>

NextPolicy ==
    \/ \E q \in Queries : PolLookup(q)
    \/ \E q \in Queries : PolEvict(q)
    \/ \E q \in Queries : PolCreateReader(q)
    \/ \E q \in Queries : PolDestroyReader(q)
    \/ \E q \in Queries : PolSaveReader(q)
    \/ \E q \in Queries : PolStop(q)

SpecPolicy == Init /\ [][NextPolicy]_vars

\* --------------------------------------------------------------------- C22
\* The last call was create_reader and found the shard in state st.
CreateCalledIn(st) == pol.last.op = "create_reader" /\ pol.last.pre.rm.state = st

\* The context the last call was made on, as the call left it.
Called == pol.last.post

\* The permit the last call of create_reader was given.
PermitGiven == pol.n + 1

DestroyCalledIn(st) == pol.last.op = "destroy_reader" /\ pol.last.pre.rm.state = st

\* C23: destroy_reader on a shard that is not in used changes neither the
\* state nor the remote parts of the shard and raises nothing: the call
\* returns and the query goes on as it was.
C23_DestroyOutsideUsedIsIgnored ==
    \A st \in {"inexistent", "successful_lookup", "saving"} :
        DestroyCalledIn(st)
            => /\ ~pol.last.thrown
               /\ Called.rm = pol.last.pre.rm
               /\ Called.f = pol.last.pre.f

C23_Witness ==
    /\ DestroyCalledIn("successful_lookup")
    /\ Has(pol.last.pre.rm.rparts)
    /\ Called = pol.last.pre
    /\ Called.f = "pending"

\* --------------------------------------------------------------------- C24
\* This step is a call on the context of query q.
CallOn(q) == pol'.n = pol.n + 1 /\ pol'.last.q = q

\* What do_query hands to the caller of query q once the page is over.
PolResult(ctx) == query_result(ctx.f, <<>>, "eos")

\* This step is a create_reader or a destroy_reader on query q in a state
\* the state diagram has no edge for.
IllegalRequest(q) ==
    /\ CallOn(q)
    /\ \/ /\ pol'.last.op = "create_reader"
          /\ pol.ctx[q].rm.state \in {"used", "saving"}
       \/ /\ pol'.last.op = "destroy_reader"
          /\ pol.ctx[q].rm.state # "used"

DiagramEdge(s, a, b) ==
    \/ a = "inexistent" /\ b = "successful_lookup" /\ pc = "lookup"
    \/ a \in {"inexistent", "successful_lookup"} /\ b = "used" /\ pc = "read"
    \/ a = "used" /\ b = "saving" /\ pc = "closing"
    \/ /\ a \in {"successful_lookup", "saving"}
       /\ b = "inexistent"
       /\ pc = "save"
       /\ saving_rm'[s] = Some(_readers[s])

\* The read_context lives from the start of the page until do_query returns.
ContextLives == pc # "idle" /\ pc' # "idle"

\* C25: while a read_context lives, every change of the state of a shard
\* follows an edge of the diagram: inexistent to successful_lookup in
\* lookup_readers, inexistent or successful_lookup to used in create_reader,
\* used to saving in destroy_reader, and successful_lookup or saving handed to
\* save_reader, which leaves inexistent behind. Saving never goes back to used
\* or successful_lookup.
C25_StateChangesFollowDiagram ==
    [][\A s \in Shards :
          (ContextLives /\ _readers'[s].state # _readers[s].state)
              => DiagramEdge(s, _readers[s].state, _readers'[s].state)]_vars

C25_Witness ==
    /\ pc = "save"
    /\ dismantled = 3
    /\ pageno > 0
    /\ \E s \in Shards : Has(saving_rm[s]) /\ Val(saving_rm[s]).state = "saving"
    /\ \E s \in Shards : Has(saving_rm[s]) /\ Val(saving_rm[s]).state = "successful_lookup"
    /\ \A s \in Shards : _readers[s].state = "inexistent"

\* ================================================= save_readers on its own
\* save_readers: dismantle_combined_buffer on the unconsumed buffer.
DisCombined ==
    /\ dis.pc = "called"
    /\ LET r == dismantle_combined_buffer(dis.readers, dis.unconsumed_buffer,
                                          dis.compaction_state.partition_start)
       IN dis' = [dis EXCEPT !.pc = "combined", !.before = dis.readers,
                             !.readers = r.readers, !.cb_stats = r.stats]
    /\ UNCHANGED <<queryVars, mrr, fwd, pol, lk, lb>>

\* save_readers: dismantle_compaction_state on the detached compaction state.
DisCompaction ==
    /\ dis.pc = "combined"
    /\ LET r == dismantle_compaction_state(dis.readers, dis.compaction_state)
       IN dis' = [dis EXCEPT !.pc = "compaction", !.before = dis.readers,
                             !.readers = r.readers, !.cs_stats = r.stats]
    /\ UNCHANGED <<queryVars, mrr, fwd, pol, lk, lb>>

\* save_readers: save_reader on every shard in successful_lookup or saving.
DisSaveReaders ==
    /\ dis.pc = "compaction"
    /\ dis' = [dis EXCEPT
                  !.pc = "saved",
                  !.before = dis.readers,
                  !.readers = [s \in Shards |->
                                  IF save_wanted(dis.readers[s])
                                  THEN take_reader_meta(dis.readers[s])
                                  ELSE dis.readers[s]],
                  !.saved = [s \in Shards |->
                                IF save_wanted(dis.readers[s])
                                THEN Some(save_reader_on_shard(
                                              dis.readers[s],
                                              dis.compaction_state.partition_start,
                                              dis.compaction_state.last_ckey))
                                ELSE None]]
    /\ UNCHANGED <<queryVars, mrr, fwd, pol, lk, lb>>

InitDismantle ==
    /\ QueryIdle
    /\ mrr = mrr0
    /\ fwd = fwd0
    /\ pol = pol0
    /\ lk = lk0
    /\ lb = lb0
    /\ \E k \in 1 .. Len(CombinedStream), n \in 0 .. MaxCombined :
          \E rds \in ReadersOfCall(k, n) : dis = save_readers_call(k, n, rds)

NextDismantle ==
    \/ DisCombined
    \/ DisCompaction
    \/ DisSaveReaders

SpecDismantle == InitDismantle /\ [][NextDismantle]_vars

\* --------------------------------------------------------------------- C26
\* The dismantled buffer of shard s in rds.
DismantledOf(rds, s) ==
    IF Has(rds[s].dismantled_buffer) THEN Val(rds[s].dismantled_buffer) ELSE <<>>

\* Where the first partition_start of the unconsumed buffer stands: behind its
\* end if it has none.
FirstStart ==
    LET b == dis.unconsumed_buffer
        starts == {i \in 1 .. Len(b) : is_partition_start(b[i])}
    IN IF starts = {} THEN Len(b) + 1 ELSE CHOOSE i \in starts : \A j \in starts : i <= j

\* The whole partitions of the unconsumed buffer, and those of shard s.
WholePartitions == WithoutFirstN(dis.unconsumed_buffer, FirstStart - 1)

WholeOf(s) ==
    LET OfShard(mf) == shard_of(mf.p) = s
    IN SelectSeq(WholePartitions, OfShard)

InWhole(mf) == \E i \in 1 .. Len(WholePartitions) : WholePartitions[i] = mf

\* The whole partitions of shards that were not in saving.
WholeDiscarded ==
    LET Gone(mf) == dis.given[shard_of(mf.p)].state # "saving"
    IN SelectSeq(WholePartitions, Gone)

PartitionStarts(seq) == SelectSeq(seq, is_partition_start)

\* C26: dismantle_combined_buffer routes each whole partition of the buffer by
\* the shard of its partition_start. The partitions of a shard in saving are
\* in the dismantled buffer of that shard and of no other, in the order of
\* the combined buffer, partition by partition and fragment by fragment; the
\* partitions of a shard that is not in saving are in no dismantled buffer
\* and are counted as discarded.
C26_WholePartitionsRouted ==
    dis.pc = "combined"
        => /\ \A s \in Shards :
                 LET b == DismantledOf(dis.readers, s)
                     routed == IF dis.given[s].state = "saving" THEN WholeOf(s) ELSE <<>>
                 IN /\ IsSuffix(routed, b)
                    /\ \A i \in 1 .. (Len(b) - Len(routed)) : ~InWhole(b[i])
           /\ dis.cb_stats.discarded_fragments = Len(WholeDiscarded)
           /\ dis.cb_stats.discarded_partitions = Len(PartitionStarts(WholeDiscarded))
           /\ dis.cb_stats.discarded_bytes = BytesOf(WholeDiscarded)

C26_Witness ==
    /\ dis.pc = "combined"
    /\ \E s \in Shards :
          /\ dis.given[s].state = "saving"
          /\ Len(PartitionStarts(WholeOf(s))) >= 2
          /\ DismantledOf(dis.readers, s) = WholeOf(s)
    /\ \E s \in Shards :
          /\ dis.given[s].state = "used"
          /\ WholeOf(s) # <<>>
          /\ DismantledOf(dis.readers, s) = <<>>

\* --------------------------------------------------------------------- C27
\* The fragments at the head of the unconsumed buffer that precede its first
\* partition_start: the rest of the partition the page stopped in.
Remainder == FirstN(dis.unconsumed_buffer, FirstStart - 1)

\* The shard of the last partition key delivered.
LastShard == shard_of(dis.compaction_state.partition_start)

\* C27: the fragments that precede the first partition_start of the combined
\* buffer are at the front of the dismantled buffer of the shard that owns
\* the last delivered partition key, in their original order and ahead of the
\* later partitions of that shard; no other shard gets any of them.
C27_RemainderInFrontOfOwner ==
    dis.pc = "combined"
        => /\ LET b == DismantledOf(dis.readers, LastShard)
              IN /\ FirstN(b, Len(Remainder)) = Remainder
                 /\ Len(b) >= Len(Remainder)
                 /\ \A i \in (Len(Remainder) + 1) .. Len(b) : InWhole(b[i])
           /\ \A s \in Shards \ {LastShard} :
                 \A i \in 1 .. Len(DismantledOf(dis.readers, s)) :
                    InWhole(DismantledOf(dis.readers, s)[i])

C27_Witness ==
    /\ dis.pc = "combined"
    /\ Len(Remainder) >= 2
    /\ dis.given[LastShard].state = "saving"
    /\ WholeOf(LastShard) # <<>>
    /\ DismantledOf(dis.readers, LastShard) = Remainder \o WholeOf(LastShard)

\* --------------------------------------------------------------------- C28
\* The fragments of the unconsumed buffer that passed Test.
CountOf(Test(_)) == Len(SelectSeq(dis.unconsumed_buffer, Test))

\* The buffer of the reader save_reader saved for shard s, if it saved one.
SavedBuffer(s) ==
    IF Has(dis.saved[s]) /\ Has(Val(dis.saved[s]).querier)
    THEN Val(Val(dis.saved[s]).querier).reader.buf
    ELSE <<>>

\* mf was pushed back into the reader saved for some shard.
PushedBack(mf) ==
    \E s \in Shards : \E i \in 1 .. Len(SavedBuffer(s)) : SavedBuffer(s)[i] = mf

\* mf was moved to the dismantled buffer of a shard that was in saving.
MovedToSaving(mf) ==
    \E s \in Shards :
        /\ dis.given[s].state = "saving"
        /\ \E i \in 1 .. Len(DismantledOf(dis.before, s)) : DismantledOf(dis.before, s)[i] = mf

\* C28: the statistics of dismantle_combined_buffer count every fragment of
\* the buffer once, as kept if it was moved to the buffer of a shard in saving
\* and as discarded otherwise: kept and discarded add up to the length of the
\* buffer, and the kept fragments are as many as save_reader then pushes back
\* into saved readers.
C28_DismantleAccounting ==
    dis.pc = "saved"
        => /\ dis.cb_stats.fragments + dis.cb_stats.discarded_fragments
                 = Len(dis.unconsumed_buffer)
           /\ dis.cb_stats.fragments = CountOf(MovedToSaving)
           /\ dis.cb_stats.fragments = CountOf(PushedBack)

\* --------------------------------------------------------------------- C29
\* The elements of the detached compaction state, as the reader has to yield
\* them again: the partition start, the static row if there is one, the
\* active range tombstone change if there is one.
CompactionElements ==
    LET cs == dis.compaction_state
    IN <<Frag("ps", cs.partition_start, 0)>>
       \o (IF cs.static_row THEN <<Frag("sr", cs.partition_start, 0)>> ELSE <<>>)
       \o (IF cs.current_tombstone THEN <<Frag("rtc", cs.partition_start, 1)>> ELSE <<>>)

\* C29: after dismantle_compaction_state, if the shard that owns the partition
\* of the compaction state is in saving, its dismantled buffer begins with the
\* partition start, then the static row if present, then the active range
\* tombstone change if present, followed by what the buffer held before, and
\* the elements are counted as kept; if the shard is not in saving no buffer
\* changes and the elements are counted as discarded. No other shard changes.
C29_CompactionStateInFront ==
    dis.pc = "compaction"
        => /\ \A s \in Shards \ {LastShard} : dis.readers[s] = dis.before[s]
           /\ IF dis.before[LastShard].state = "saving"
              THEN /\ DismantledOf(dis.readers, LastShard)
                         = CompactionElements \o DismantledOf(dis.before, LastShard)
                   /\ dis.cs_stats.fragments = Len(CompactionElements)
                   /\ dis.cs_stats.partitions = 1
                   /\ dis.cs_stats.discarded_fragments = 0
              ELSE /\ dis.readers = dis.before
                   /\ dis.cs_stats.discarded_fragments = Len(CompactionElements)
                   /\ dis.cs_stats.discarded_partitions = 1
                   /\ dis.cs_stats.fragments = 0

C29_Witness ==
    /\ dis.pc = "compaction"
    /\ dis.before[LastShard].state = "saving"
    /\ Len(CompactionElements) = 3
    /\ DismantledOf(dis.before, LastShard) # <<>>
    /\ DismantledOf(dis.readers, LastShard)
          = CompactionElements \o DismantledOf(dis.before, LastShard)

\* --------------------------------------------------------------------- C30
\* save_reader was called for shard s and found its reader still parked.
ReaderSaved(s) == Has(dis.saved[s]) /\ Has(Val(dis.saved[s]).querier)

\* What save_reader was handed for shard s: the remote parts, the fragments
\* destroy_reader captured, and the buffer of the parked reader.
PartsHanded(s) == Val(dis.before[s].rparts)

CapturedBy_destroy_reader(s) ==
    IF Has(PartsHanded(s).buffer) THEN Val(PartsHanded(s).buffer) ELSE <<>>

ParkedBuffer(s) == Val(Val(PartsHanded(s).handle).reader).buf

\* C30: after save_reader has pushed the fragments back, the buffer of the
\* saved reader reads from the front: the dismantled buffer of the shard, then
\* the unconsumed fragments of the shard reader that destroy_reader captured,
\* then what the buffer of the reader held before, each in its original
\* order.
C30_SavedBufferOrder ==
    dis.pc = "saved"
        => \A s \in Shards :
              ReaderSaved(s)
                  => SavedBuffer(s) = DismantledOf(dis.before, s)
                                      \o CapturedBy_destroy_reader(s)
                                      \o ParkedBuffer(s)

C30_Witness ==
    /\ dis.pc = "saved"
    /\ \E s \in Shards :
          /\ ReaderSaved(s)
          /\ Len(DismantledOf(dis.before, s)) >= 2
          /\ CapturedBy_destroy_reader(s) # <<>>
          /\ ParkedBuffer(s) # <<>>
          /\ Len(SavedBuffer(s)) = Len(DismantledOf(dis.before, s)) + 2

\* --------------------------------------------------------------------- C31
\* In this step the save_reader of shard s resolves.
SaveRan(s) == pc = "save" /\ Has(saving_rm[s]) /\ ~Has(saving_rm'[s])

\* In this step a querier is inserted into the cache of shard s.
Inserted(s) == pc = "save" /\ querier_cache'[s] # querier_cache[s] /\ Has(querier_cache'[s])

\* In this step save_readers calls save_reader for shard s.
SaveCalled(s) == pc = "save" /\ ~Has(saving_rm[s]) /\ Has(saving_rm'[s])

FailedSaves == stats.multishard_query_failed_reader_saves

\* What holds of every save whether it fails or not: save_reader is called
\* for shards in successful_lookup or saving only, a querier is inserted only
\* by the save_reader of the shard and at most once a page, and a reader
\* found evicted gives no insert and no failure count.
SaveInsertsOnlyForSavedShards(s) ==
    /\ SaveCalled(s) <=> (pc = "save" /\ dismantled = 2 /\ save_wanted(_readers[s]))
    /\ Inserted(s) => (SaveRan(s) /\ saved[s] = "no"
                       /\ Val(saving_rm[s]).state \in {"successful_lookup", "saving"})
    /\ (SaveRan(s) /\ ~can_evict(Val(saving_rm[s])) /\ saved'[s] # "failed")
          => (querier_cache' = querier_cache /\ FailedSaves' = FailedSaves)

\* C31 as stated: save_readers inserts a querier into the cache of shard s if
\* and only if s is in successful_lookup or saving when saving starts and its
\* reader is still registered inactive.
C31_InsertIffSavedAndRegistered ==
    [][\A s \in Shards :
          /\ SaveInsertsOnlyForSavedShards(s)
          /\ SaveRan(s) => (Inserted(s) <=> can_evict(Val(saving_rm[s])))]_vars

\* C31, amended: save_readers inserts a querier into the cache of shard s if
\* and only if s is in successful_lookup or saving when saving starts, its
\* reader is still registered inactive when save_reader runs on the shard, and
\* save_reader does not fail there; a save that fails inserts nothing and is
\* counted as a failed save. Shards in inexistent or used get no insert, an
\* evicted reader gives no insert and no failure count, and at most one
\* querier per shard is inserted per page.
C31_InsertIffSavedRegisteredAndNoFailure ==
    [][\A s \in Shards :
          /\ SaveInsertsOnlyForSavedShards(s)
          /\ SaveRan(s)
                => /\ Inserted(s) <=> (can_evict(Val(saving_rm[s])) /\ saved'[s] # "failed")
                   /\ saved'[s] = "failed"
                         => (querier_cache' = querier_cache
                             /\ FailedSaves' = FailedSaves + 1)]_vars

C31_Witness ==
    /\ pc = "save"
    /\ dismantled = 3
    /\ \A s \in Shards : ~Has(saving_rm[s])
    /\ \E s \in Shards : saved[s] = "inserted" /\ Has(querier_cache[s])
    /\ \E s \in Shards : saved[s] \in {"evicted", "failed"} /\ ~Has(querier_cache[s])

\* --------------------------------------------------------------------- C32
\* save_readers of this page has completed.
SaveCompleted == pc \in {"stop", "return"}

\* C32: after save_readers has completed, every shard save_reader was called
\* for (it was in successful_lookup or saving) is inexistent and holds no
\* remote parts in the read context, whether the save inserted a querier,
\* found the reader evicted or failed; after a failed save the cache of the
\* shard holds no querier of the query, so the lookup of the next page leaves
\* the shard inexistent.
C32_SavedShardsAreInexistent ==
    \A s \in Shards :
        /\ (SaveCompleted /\ saved[s] # "no")
              => (_readers[s].state = "inexistent" /\ ~Has(_readers[s].rparts))
        /\ saved[s] = "failed"
              => /\ ~Has(querier_cache[s])
                 /\ lookup_on_shard(querier_cache[s]) = reader_meta_default

C32_Witness ==
    /\ pc = "stop"
    /\ \E s \in Shards : saved[s] = "failed" /\ ~Has(querier_cache[s])
    /\ \E s \in Shards : saved[s] = "inserted" /\ Has(querier_cache[s])
    /\ \A s \in Shards : _readers[s] = reader_meta_default

\* ============================ lookup_readers over queriers of any semaphore
\* do_query calls lookup_readers for a later page of a stateful query.
LkLookupReaders ==
    /\ lk.pc = "idle"
    /\ lk' = [lk EXCEPT !.pc = "lookup"]
    /\ UNCHANGED <<queryVars, mrr, fwd, pol, dis, lb>>

\* The closure of lookup_readers runs on shard s; invoke_on_all runs the
\* closures of the shards in parallel, in any order.
LkLookupShard(s) ==
    /\ lk.pc = "lookup"
    /\ s \notin lk.looked
    /\ LET r == lookup_closure(lk._readers[s], lk.cache[s], lk.semaphore)
       IN lk' = [lk EXCEPT !._readers[s] = r.rm,
                           !.found[s] = lk.cache[s],
                           !.cache[s] = None,
                           !.f = IF r.thrown THEN "failed" ELSE @,
                           !.made_on[s] = IF Has(r.rm.rparts) THEN @ \cup {s} ELSE @,
                           !.looked = @ \cup {s}]
    /\ UNCHANGED <<queryVars, mrr, fwd, pol, dis, lb>>

\* invoke_on_all has finished on every shard: do_query goes on to read_page,
\* or to stop() if a closure threw.
LkLookupDone ==
    /\ lk.pc = "lookup"
    /\ lk.looked = Shards
    /\ lk' = [lk EXCEPT !.pc = IF lk.f = "failed" THEN "stop" ELSE "read"]
    /\ UNCHANGED <<queryVars, mrr, fwd, pol, dis, lb>>

\* The shard reader of the combining reader calls create_reader on the shard
\* it runs on: the entry is the one of this_shard_id().
LkCreateReader(here) ==
    /\ lk.pc = "read"
    /\ lk._readers[here].state # "saving"
    /\ LET rm == lk._readers[here]
           permit == IF rm.state = "successful_lookup" THEN Val(rm.rparts).permit
                     ELSE permit_of(lk.semaphore, here + 1)
           res == create_reader(rm, permit, [buf |-> <<>>, nxt |-> 1])
       IN lk' = [lk EXCEPT !._readers[here] = res.rm,
                           !.made_on[here] = IF ~Has(rm.rparts) /\ Has(res.rm.rparts)
                                             THEN @ \cup {here} ELSE @,
                           !.f = IF res.thrown THEN "failed" ELSE @,
                           !.pc = IF res.thrown THEN "stop" ELSE @]
    /\ UNCHANGED <<queryVars, mrr, fwd, pol, dis, lb>>

\* The shard reader is closed: destroy_reader runs on its shard with the
\* stopped reader, registered with the semaphore.
LkDestroyReader(here) ==
    /\ lk.pc = "read"
    /\ lk._readers[here].state = "used"
    /\ LET rm == lk._readers[here]
           stopped_reader ==
               [handle |-> register_inactive_read(Reader(Val(rm.rparts).permit, <<>>, 1)),
                unconsumed_fragments |-> <<>>]
       IN lk' = [lk EXCEPT !._readers[here] = destroy_reader(rm, stopped_reader)]
    /\ UNCHANGED <<queryVars, mrr, fwd, pol, dis, lb>>

\* read_page returns: the combining reader is closed, and do_query goes on to
\* save_readers, or to stop() when the page is the last one or failed.
LkReadDone ==
    /\ lk.pc = "read"
    /\ \A s \in Shards : lk._readers[s].state # "used"
    /\ \E next \in {"save", "stop"} : lk' = [lk EXCEPT !.pc = next]
    /\ UNCHANGED <<queryVars, mrr, fwd, pol, dis, lb>>

\* save_reader for shard s: the coordinator exchanges the entry with a default
\* one and the closure invoked on the shard releases the remote parts; it
\* inserts the querier if the reader is still registered and nothing throws.
LkSaveReader(s) ==
    /\ lk.pc = "save"
    /\ save_wanted(lk._readers[s])
    /\ \E thrown \in BOOLEAN :
          LET rm == lk._readers[s]
              here == invoke_on(lk.coordinator, s)
          IN lk' = [lk EXCEPT !._readers[s] = take_reader_meta(rm),
                              !.freed_on[s] = @ \cup {here},
                              !.cache[s] = IF thrown THEN @
                                           ELSE save_reader_on_shard(rm, 1, 1).querier]
    /\ UNCHANGED <<queryVars, mrr, fwd, pol, dis, lb>>

\* save_readers has resolved: do_query calls stop().
LkSaveDone ==
    /\ lk.pc = "save"
    /\ \A s \in Shards : ~save_wanted(lk._readers[s])
    /\ lk' = [lk EXCEPT !.pc = "stop"]
    /\ UNCHANGED <<queryVars, mrr, fwd, pol, dis, lb>>

\* The semaphore of shard s evicts the reader the read context registered.
LkEvict(s) ==
    /\ lk.pc \in {"lookup", "read", "save", "stop"}
    /\ can_evict(lk._readers[s])
    /\ lk' = [lk EXCEPT !._readers[s] = evict(@), !.evicted = @ \cup {s}]
    /\ UNCHANGED <<queryVars, mrr, fwd, pol, dis, lb>>

\* The closure of stop() on shard s: the reader, if still registered, is
\* unregistered and closed, and the remote parts are released.
LkStopShard(s) ==
    /\ lk.pc = "stop"
    /\ s \notin lk.stopped
    /\ stop_visits(lk._readers[s])
    /\ lk' = [lk EXCEPT !._readers[s] = stop_on_shard(@),
                        !.freed_on[s] = @ \cup {invoke_on(lk.coordinator, s)},
                        !.closed = IF can_evict(lk._readers[s]) THEN @ \cup {s} ELSE @,
                        !.stopped = @ \cup {s}]
    /\ UNCHANGED <<queryVars, mrr, fwd, pol, dis, lb>>

\* Every closure of stop() has resolved: do_query returns.
LkStopDone ==
    /\ lk.pc = "stop"
    /\ \A s \in Shards : s \in lk.stopped \/ ~stop_visits(lk._readers[s])
    /\ lk' = [lk EXCEPT !.pc = "done"]
    /\ UNCHANGED <<queryVars, mrr, fwd, pol, dis, lb>>

\* The caches hold what earlier pages left: nothing, or a querier saved under
\* the class of the query or under another.
InitLookup ==
    /\ QueryIdle
    /\ mrr = mrr0
    /\ fwd = fwd0
    /\ pol = pol0
    /\ dis = dis0
    /\ lb = lb0
    /\ \E semaphore \in Semaphores, c \in [Shards -> {"none"} \cup Semaphores],
          coordinator \in Shards :
          lk = [lk0 EXCEPT !.semaphore = semaphore,
                           !.coordinator = coordinator,
                           !.cache = [s \in Shards |->
                                         IF c[s] = "none" THEN None
                                         ELSE Some(cached_querier(s, c[s]))]]

NextLookup ==
    \/ LkLookupReaders
    \/ \E s \in Shards : LkLookupShard(s)
    \/ LkLookupDone
    \/ \E here \in Shards : LkCreateReader(here)
    \/ \E here \in Shards : LkDestroyReader(here)
    \/ LkReadDone
    \/ \E s \in Shards : LkSaveReader(s)
    \/ LkSaveDone
    \/ \E s \in Shards : LkEvict(s)
    \/ \E s \in Shards : LkStopShard(s)
    \/ LkStopDone

SpecLookup == InitLookup /\ [][NextLookup]_vars

\* --------------------------------------------------------------------- C33
\* The lookup on shard s returned a querier whose permit is of a semaphore
\* other than the one of the query, or of that one.
ForeignFound(s) ==
    Has(lk.found[s]) /\ semaphore_of(Val(lk.found[s]).permit) # lk.semaphore

OwnFound(s) ==
    Has(lk.found[s]) /\ semaphore_of(Val(lk.found[s]).permit) = lk.semaphore

\* C33: a looked-up querier whose permit belongs to another semaphore than the
\* shard's semaphore for the query raises an internal error: the shard does
\* not become successful_lookup, its reader is not registered (the shard has
\* no remote parts and no handle), the query fails, and the readers looked up
\* on the other shards are unregistered and closed by stop(), unless the
\* semaphore evicted them first.
C33_ForeignSemaphoreFailsLookup ==
    /\ \A s \in Shards :
          ForeignFound(s)
              => /\ lk._readers[s] = reader_meta_default
                 /\ lk.f = "failed"
                 /\ query_result(lk.f, <<>>, "eos").kind = "error"
                 /\ lk.pc # "read"
    /\ lk.pc = "done"
          => \A s \in Shards :
                /\ ~Has(lk._readers[s].rparts)
                /\ (OwnFound(s) /\ s \notin lk.evicted
                    /\ \E u \in Shards : ForeignFound(u)) => s \in lk.closed

C33_Witness ==
    /\ lk.pc = "done"
    /\ \E s \in Shards : ForeignFound(s) /\ lk._readers[s].state = "inexistent"
    /\ \E s \in Shards :
          /\ OwnFound(s)
          /\ lk._readers[s].state = "successful_lookup"
          /\ s \in lk.closed

\* --------------------------------------------------------------------- C34
\* Shard s is in successful_lookup and the reader lookup_readers registered is
\* still with the semaphore.
SavedReaderWaits(s) ==
    _readers[s].state = "successful_lookup" /\ can_evict(_readers[s])

\* create_reader on shard s with the permit obtain_reader_permit gives in the
\* state the shard is in, and with that permit after the semaphore evicted the
\* reader between the two calls.
CreateWithObtained(s) ==
    create_reader(_readers[s], obtain_reader_permit(_readers[s], s), make_reader(s))

CreateAfterEviction(s) ==
    create_reader(evict(_readers[s]), obtain_reader_permit(_readers[s], s), make_reader(s))

\* C34: while the page is read, obtain_reader_permit on a shard in
\* successful_lookup returns the permit
\* of the saved reader and acquires none; in every other state it acquires a
\* permit of the shard no one holds. Hence create_reader, when it reuses the
\* saved reader with the permit obtained this way, finds the reader's permit
\* equal to it, returns that reader and raises no internal error.
C34_ObtainedPermitPassesCheck ==
    \A s \in Shards :
        /\ (pc = "read" /\ _readers[s].state = "successful_lookup")
              => /\ Has(_readers[s].rparts)
                 /\ obtain_reader_permit(_readers[s], s) = Val(_readers[s].rparts).permit
                 /\ obtain_reader_permit(_readers[s], s) \in InFlight(s)
        /\ (pc = "read" /\ _readers[s].state # "successful_lookup")
              => obtain_reader_permit(_readers[s], s) \notin InFlight(s)
        /\ (pc = "read" /\ SavedReaderWaits(s))
              => /\ ~CreateWithObtained(s).thrown
                 /\ CreateWithObtained(s).reader
                       = Val(Val(_readers[s].rparts).handle).reader
                 /\ Val(CreateWithObtained(s).reader).permit
                       = obtain_reader_permit(_readers[s], s)
                 /\ ~CreateAfterEviction(s).thrown
        /\ (pc = "read" /\ s \in created /\ Has(shard_readers[s])
            /\ Val(shard_readers[s]).live)
              => /\ _readers[s].state = "used"
                 /\ Val(shard_readers[s]).permit = Val(_readers[s].rparts).permit

\* A later page reads from a reader create_reader took back from the
\* semaphore: the shard is used and the reader holds the saved permit.
C34_Witness ==
    /\ pageno >= 1
    /\ pc = "read"
    /\ f = "pending"
    /\ \E s \in Shards :
          /\ Has(snap.cache[s])
          /\ s \in created
          /\ _readers[s].state = "used"
          /\ Has(shard_readers[s])
          /\ Val(shard_readers[s]).live
          /\ Val(shard_readers[s]).permit = Val(snap.cache[s]).permit
          /\ Val(shard_readers[s]).permit = Val(_readers[s].rparts).permit

\* --------------------------------------------------------------------- C35
\* The states of a shard entry that carry remote parts.
CarriesParts(rm) == rm.state \in {"successful_lookup", "used", "saving"}

\* C35 as stated: a shard entry holds remote parts exactly when its state is
\* successful_lookup, used or saving.
C35_PartsIffNotInexistent ==
    \A s \in Shards : Has(_readers[s].rparts) <=> CarriesParts(_readers[s])

\* C35, amended: an inexistent shard entry never holds remote parts, and an
\* entry in successful_lookup, used or saving holds them until stop() has
\* released them on the shard; stop() leaves the state of the entry as it was.
C35_PartsIffNotInexistentUntilStop ==
    \A s \in Shards :
        /\ Has(_readers[s].rparts) => CarriesParts(_readers[s])
        /\ (CarriesParts(_readers[s]) /\ s \notin stopped) => Has(_readers[s].rparts)
        /\ (CarriesParts(_readers[s]) /\ ~Has(_readers[s].rparts)) => pc \in {"stop", "return"}

C35_Witness ==
    /\ pc = "stop"
    /\ \E s \in Shards :
          /\ s \in stopped
          /\ _readers[s].state = "used"
          /\ ~Has(_readers[s].rparts)
    /\ \E s \in Shards :
          /\ s \notin stopped
          /\ _readers[s].state = "saving"
          /\ Has(_readers[s].rparts)

ReaderClosed == closed = created /\ \A s \in Shards : ~Has(shard_readers[s])

\* save_readers has not started, and stop() has not.
SaveNotStarted == dismantled = 0 /\ \A s \in Shards : ~Has(saving_rm[s])

StopNotStarted == stop_calls = 0 /\ stopped = {}

\* C37: the phases of a page follow one another. While lookup_readers runs no
\* shard reader exists; the combining reader reads (create_reader) and is
\* closed (destroy_reader) only after lookup_readers has run on all shards, and
\* then neither save_readers nor stop() has started; save_readers runs only
\* on a closed reader and before stop(); stop() runs only when save_readers,
\* if called, has finished with every shard.
C37_PhasesInSequence ==
    /\ pc = "lookup"
          => created = {} /\ ReaderClosed /\ SaveNotStarted /\ StopNotStarted
    /\ pc \in {"read", "closing"}
          => /\ lookup_skips(cmd) \/ looked = Shards
             /\ SaveNotStarted
             /\ StopNotStarted
    /\ (\E s \in Shards : Has(shard_readers[s]))
          => pc \in {"read", "closing"}
    /\ pc = "save"
          => ReaderClosed /\ StopNotStarted
    /\ (pc = "stop" \/ ~StopNotStarted)
          => /\ ReaderClosed
             /\ \A s \in Shards : ~Has(saving_rm[s])
             /\ dismantled \in {0, 3}
             /\ stop_calls = 1

\* A later page went through every phase: its readers were looked up, read
\* from, closed and saved, and stop() runs.
C37_Witness ==
    /\ pc = "stop"
    /\ pageno >= 1
    /\ looked = Shards
    /\ created # {}
    /\ closed = created
    /\ dismantled = 3
    /\ \E s \in Shards : saved[s] = "inserted"
    /\ \E s \in Shards : s \in stopped

\* --------------------------------------------------------------------- C38
\* C38: the combining reader of read_page is closed exactly once on every
\* path. The read is left only into the close, after consume_page succeeded
\* (the buffer detached is kept whole through the close) or failed (the
\* error stays the result); the close is entered only from the read, closes
\* each shard reader once, and read_page returns only when every shard reader
\* is closed.
C38_ReaderClosedOnceOnEveryPath ==
    [][/\ (pc = "read" /\ pc' # "read") => pc' = "closing"
       /\ (pc' = "closing" /\ pc # "closing") => pc = "read" /\ closed' = {}
       /\ pc = "closing"
             => /\ combined' = combined
                /\ (f = "failed") => (f' = "failed")
                /\ closed \subseteq closed'
                /\ \A s \in closed : ~Has(shard_readers[s]) /\ ~Has(shard_readers'[s])
                /\ (pc' # "closing")
                      => /\ pc' \in {"save", "stop", "return"}
                         /\ closed' = created'
                         /\ \A s \in Shards : ~Has(shard_readers'[s])
       /\ (pc' = "read" /\ pc # "read") => closed' = {} /\ created' = {}
       /\ (pc \in {"save", "stop"}) => pc' # "closing" /\ pc' # "read"
      ]_vars

\* consume_page failed after shard readers were created, and the reader was
\* closed before do_query went on with the error.
C38_Witness ==
    /\ pc = "stop"
    /\ f = "failed"
    /\ created # {}
    /\ closed = created
    /\ \A s \in Shards : ~Has(shard_readers[s])

\* --------------------------------------------------------------------- C39
\* The underlying reader gets on with its range: a fill_buffer of it fetches
\* a fragment or finds the end of the range.
MrrUnderlyingProgress ==
    /\ MrrUnderlyingFill
    /\ \/ mrr'._reader.pos > mrr._reader.pos
       \/ mrr'._reader._end_of_stream
       \/ mrr._reader.buffer # <<>>

\* The consumer takes what fill_buffer gave it before it calls again.
MrrConsume == MrrPop \/ MrrDetachBuffer

\* fill_buffer calls are repeated and each runs to its end; every range's
\* stream ends; the consumer empties the buffer between the calls.
SpecMrrLive ==
    /\ InitMrr
    /\ [][NextMrr]_vars
    /\ WF_vars(MrrFillBuffer)
    /\ WF_vars(MrrLoop)
    /\ WF_vars(MrrMove)
    /\ SF_vars(MrrUnderlyingProgress)
    /\ SF_vars(MrrConsume)

\* The underlying reader is through with its range.
RangeExhausted ==
    /\ mrr._reader.buffer = <<>>
    /\ mrr._reader._end_of_stream
    /\ mrr._reader.pos = mrr.ranges[mrr._it]

\* C39: multi_range_reader goes through the ranges in order, each once: _it
\* only moves to the next range, and only when the underlying reader is at the
\* end of its stream with an empty buffer, and the reader is then forwarded to
\* that range unless there is none; what the wrapper holds is of ranges
\* reached, in order; the end of stream is set only past the last range, with
\* nothing left in the underlying reader. If the stream of each range ends and
\* the consumer empties the buffer between calls, repeated fill_buffer calls
\* reach the end of stream, unless a fill of the underlying reader fails.
C39_RangesInOrderToEndOfStream ==
    /\ [][/\ mrr'._it \in {mrr._it, mrr._it + 1}
          /\ mrr'._it = mrr._it + 1
                => /\ RangeExhausted
                   /\ mrr.buffer = <<>>
                   /\ IF mrr._it + 1 <= Len(mrr.ranges)
                      THEN mrr'._reader = fast_forward_to(mrr._reader)
                           /\ ~mrr'._end_of_stream
                      ELSE mrr'._end_of_stream
          /\ mrr'._it = mrr._it
                => /\ mrr'._reader.pos >= mrr._reader.pos
                   /\ mrr'._end_of_stream = mrr._end_of_stream
          /\ mrr._end_of_stream => mrr'._end_of_stream
         ]_vars
    /\ [](/\ \A i \in DOMAIN mrr.buffer : mrr.buffer[i].range <= mrr._it
          /\ \A i, j \in DOMAIN mrr.buffer :
                i < j => \/ mrr.buffer[i].range < mrr.buffer[j].range
                         \/ /\ mrr.buffer[i].range = mrr.buffer[j].range
                            /\ mrr.buffer[i].n < mrr.buffer[j].n
          /\ mrr._end_of_stream
                => /\ mrr._it = Len(mrr.ranges) + 1
                   /\ mrr._reader.buffer = <<>>
                   /\ mrr._reader._end_of_stream
          /\ ~mrr._end_of_stream => mrr._it <= Len(mrr.ranges))
    /\ <>(mrr._end_of_stream \/ mrr.pc = "failed")

\* Three ranges, the second empty, were read to the end of the stream.
C39_Witness ==
    /\ mrr._end_of_stream
    /\ mrr.pc = "idle"
    /\ mrr.buffer = <<>>
    /\ Len(mrr.ranges) = 3
    /\ mrr.ranges[1] = MaxRangeLen
    /\ mrr.ranges[2] = 0
    /\ mrr.ranges[3] = 1

\* ============================================================ load_broadcaster
\* start_broadcasting(): _done is made ready and the timer armed.
LbStartBroadcasting ==
    /\ ~lb.started
    /\ lb' = [lb EXCEPT !.started = TRUE, !._done = "ready", !.timer = "armed"]
    /\ UNCHANGED <<queryVars, mrr, fwd, pol, dis, lk>>

\* The timer expires and runs its callback: map_reduce0 over the shards is
\* started and its future, with the continuation, is put in _done.
LbTimerCallback ==
    /\ lb.timer = "armed"
    /\ lb.published < MaxBroadcasts
    /\ lb' = [lb EXCEPT !.timer = "idle", !._done = "pending", !.broadcast = "running"]
    /\ UNCHANGED <<queryVars, mrr, fwd, pol, dis, lk>>

\* map_reduce0 resolves with the size: the continuation publishes the load
\* and arms the timer again; the future of the broadcast is then resolved.
LbBroadcastDone(size) ==
    /\ lb.broadcast = "running"
    /\ lb' = [lb EXCEPT !.broadcast = "none",
                        !.load = size,
                        !.published = @ + 1,
                        !.published_after_stop =
                            IF lb.stop = "resolved" THEN @ + 1 ELSE @,
                        !.timer = "armed",
                        !._done = IF @ = "pending" THEN "ready" ELSE @,
                        !.stop = IF @ = "waiting" THEN "resolved" ELSE @]
    /\ UNCHANGED <<queryVars, mrr, fwd, pol, dis, lk>>

\* map_reduce0 fails: the continuation does not run and the future of the
\* broadcast resolves with the exception.
LbBroadcastFails ==
    /\ lb.broadcast = "running"
    /\ lb' = [lb EXCEPT !.broadcast = "none",
                        !._done = IF @ = "pending" THEN "ready" ELSE @,
                        !.stop = IF @ = "waiting" THEN "resolved" ELSE @]
    /\ UNCHANGED <<queryVars, mrr, fwd, pol, dis, lk>>

\* stop_broadcasting(): the timer is cancelled and _done is moved out to the
\* caller; it resolves when the broadcast it is the future of, if any, has.
LbStopBroadcasting ==
    /\ lb.started
    /\ lb.stop = "no"
    /\ lb' = [lb EXCEPT !.timer = "idle",
                        !._done = "moved",
                        !.stop = IF lb._done = "pending" THEN "waiting" ELSE "resolved"]
    /\ UNCHANGED <<queryVars, mrr, fwd, pol, dis, lk>>

InitLb ==
    /\ QueryIdle
    /\ mrr = mrr0
    /\ fwd = fwd0
    /\ pol = pol0
    /\ dis = dis0
    /\ lk = lk0
    /\ lb = lb0

NextLb ==
    \/ LbStartBroadcasting
    \/ LbTimerCallback
    \/ \E size \in 0 .. MaxLoad : LbBroadcastDone(size)
    \/ LbBroadcastFails
    \/ LbStopBroadcasting

SpecLb == InitLb /\ [][NextLb]_vars

\* --------------------------------------------------------------------- C40
\* C40: once the future stop_broadcasting() returned has resolved, the timer
\* is not armed and no load is published any more, a broadcast being in flight
\* at the call or not.
C40_QuietAfterStop ==
    lb.stop = "resolved"
        => /\ lb.timer # "armed"
           /\ lb.published_after_stop = 0
====
